---- MODULE Spec2Model ----
(***************************************************************************)
(* A model of the Keras Functional graph engine (keras/models/functional.py)*)
(* and of the model persistence layer (keras/saving/saving_lib.py).         *)
(*                                                                           *)
(* The module holds several state machines over one set of variables; each  *)
(* has its own initial predicate and next-state relation:                    *)
(*   SpecWalk   the trackable state walker (_save_state / _load_state)       *)
(*   SpecStore    ShardedH5IOStore: write session, read session              *)
(*   SpecCtor     Functional.__init__: validation of inputs and outputs      *)
(*   SpecConfig   get_config and functional_from_config                      *)
(*   SpecClone    clone_graph_nodes                                          *)
(*   SpecSoftmax  _check_output_activation_softmax                           *)
(*   SpecSaveLoad save_model, load_model, save/load_weights_only             *)
(*   SpecGet      H5IOStore, NpzIOStore, DiskIOStore: make and get           *)
(*   SpecRank     Functional._adjust_input_rank                              *)
(*   SpecCall     Functional.call and operation_fn                           *)
(***************************************************************************)
EXTENDS Integers, Sequences, FiniteSets, TLC

VARIABLES
    \* ---- trackable walker (saving_lib._save_state / _load_state) ----
    attrs,        \* the object graph: attrs[o] = [child |-> ..., items |-> ...]
    wcfg,         \* arguments of the pass: mode, skip_mismatch, assets store, failing object
    stack,        \* the call stack of the recursive walk (top = last element)
    visited,      \* visited_trackables
    log,          \* the calls made on trackables, in order
    wstatus,      \* "running", "done" or "raised"
    \* ---- sharded weights store (saving_lib.ShardedH5IOStore) ----
    scfg,         \* arguments of the session: archive, max_size
    disk,         \* HDF5 files on disk: file name -> groups
    zip,          \* members written to the archive, in order: [name, groups]
    mapfile,      \* content of the shard-map JSON file, or NoFile
    store,        \* the fields of the ShardedH5IOStore object, or NoStore
    sphase,       \* "none", "writing", "written", "reading", "closed" or "failed"
    written,      \* the variables written under each path made in this session
    lastGet,      \* the last get() call and what it returned
    \* ---- Functional.__init__ argument validation ----
    ctor,         \* the inputs and outputs given, the outcome, the warnings
    \* ---- the Functional graph engine ----
    ops,          \* operation name -> its kind and its _inbound_nodes
    tensors,      \* KerasTensor id -> its _keras_history
    fmodel,       \* the Functional model built (inputs, outputs, _nodes, operations)
    config,       \* the config returned by get_config() or read from a file
    rp,           \* functional_from_config: created layers, queue, position
    cl,           \* clone_graph_nodes: what was asked and what was made
    \* ---- the other operations ----
    smx,          \* _check_output_activation_softmax: output layers, outcome
    iop,          \* save_model / load_model / *_weights_only: resources, position
    rstore,       \* H5IOStore / NpzIOStore / DiskIOStore opened for reading
    rank,         \* Functional._adjust_input_rank: the inputs and the outcome
    exec,         \* Functional.call: the values computed, the calls made
    cnt,          \* _save_container_state: the container and the names given
    flat,         \* Functional._flatten_to_reference_inputs: arguments, outcome
    fit           \* Model._fit: the loop position and the callbacks called

walkVars == <<attrs, wcfg, stack, visited, log, wstatus>>
storeVars == <<scfg, disk, zip, mapfile, store, sphase, written, lastGet>>
vars == <<attrs, wcfg, stack, visited, log, wstatus,
          scfg, disk, zip, mapfile, store, sphase, written, lastGet, ctor,
          ops, tensors, fmodel, config, rp, cl, smx, iop, rstore, rank, exec,
          cnt, flat, fit>>

graphVars == <<ops, tensors, fmodel, config, rp, cl>>
moreVars == <<smx, iop, rstore, rank, exec>>
lateVars == <<cnt, flat, fit>>

NoObj == "none"
\* No shard-map file, no file name (None), no store object, no get() yet.
NoMapFile == [exists |-> FALSE, map |-> <<>>]
NoName == <<>>
NoValue == [bytes |-> 0, sess |-> "none"]
NoStore ==
    [ mode |-> "none", shard_list |-> <<>>, root_path |-> <<>>, max_size |-> 0,
      current_shard_size |-> 0, var_shard_map |-> <<>>,
      h5 |-> [filename |-> <<>>, groups |-> <<>>, open |-> FALSE] ]
NoGet == [path |-> <<>>, res |-> "none", value |-> NoValue]

\* The parts of the state a state machine does not use stay as they are here.
WalkIdle ==
    /\ attrs = <<>> /\ wcfg = <<>> /\ stack = <<>>
    /\ visited = {} /\ log = <<>> /\ wstatus = "idle"

StoreIdle ==
    /\ scfg = <<>> /\ disk = <<>> /\ zip = <<>> /\ mapfile = NoMapFile
    /\ store = NoStore /\ sphase = "none" /\ written = <<>> /\ lastGet = NoGet

CtorIdle == ctor = <<>>

GraphIdle ==
    /\ ops = <<>> /\ tensors = <<>> /\ fmodel = <<>>
    /\ config = <<>> /\ rp = <<>> /\ cl = <<>>

SoftmaxIdle == smx = <<>>
IoIdle == iop = <<>>
StIdle == rstore = <<>>
RankIdle == rank = <<>>
RunIdle == exec = <<>>
MoreIdle == SoftmaxIdle /\ IoIdle /\ StIdle /\ RankIdle /\ RunIdle
NamesIdle == cnt = <<>>
FlattenIdle == flat = <<>>
FitIdle == fit = <<>>
LateIdle == NamesIdle /\ FlattenIdle /\ FitIdle

(***************************************************************************)
(*                         TRACKABLE STATE WALKER                           *)
(***************************************************************************)

\* The trackables of the object graphs explored; "model" is the root.
Objs == {"model", "l1", "l2"}

\* Class names of the trackables, already split into words: snake case joins
\* the lower-cased words with "_".
ClassWords(o) == IF o = "model" THEN <<"functional">> ELSE <<"dense">>

\* naming.to_snake_case(trackable.__class__.__name__), as a token sequence.
to_snake_case(o) == ClassWords(o)

\* The containers an attribute `items` may hold (elements are trackables or
\* a non-trackable value).
Containers == { <<>>, <<"l1", "l2">>, <<"l2", NoObj, "model">> }

\* _is_keras_trackable(obj)
is_keras_trackable(x) == x \in Objs

\* _walk_trackable: the attributes of a trackable that survive the skip list,
\* in sorted order of their names: "child" < "items".
walk_trackable(o) ==
    << [name |-> "child", kind |-> "obj", val |-> attrs[o].child],
       [name |-> "items", kind |-> "container", val |-> attrs[o].items] >>

\* file_utils.join(inner_path, name).replace("\\", "/"): paths are sequences
\* of components, the root path "" is the empty sequence.
JoinPath(inner_path, name) == inner_path \o <<name>>

\* The name synthesized for a container element: f"{name}_{used_names[name]}"
Digits(k) ==
    CASE k = 0 -> "0" [] k = 1 -> "1" [] k = 2 -> "2" [] k = 3 -> "3"
      [] k = 4 -> "4" [] k = 5 -> "5" [] k = 6 -> "6" [] k = 7 -> "7"
      [] k = 8 -> "8" [] k = 9 -> "9" [] OTHER -> "many"

Suffixed(name, k) == name \o <<"_", Digits(k)>>

\* A frame of _save_state / _load_state at its entry.
EnterFrame(o, path) == [kind |-> "enter", obj |-> o, path |-> path]
\* A frame of _save_state / _load_state inside the loop over _walk_trackable.
WalkFrame(o, path, i) == [kind |-> "walk", obj |-> o, path |-> path, i |-> i]
\* A frame of _save_container_state / _load_container_state.
ContFrame(c, path, j, used) ==
    [kind |-> "cont", elems |-> c, path |-> path, j |-> j, used |-> used]

Top == stack[Len(stack)]
Pop == SubSeq(stack, 1, Len(stack) - 1)

Call(name, o, path, ok) == [call |-> name, obj |-> o, path |-> path, ok |-> ok]

\* The check of _save_state: `if id(trackable) in visited_trackables: return`.
AlreadyVisitedNever(o, vis) == FALSE
AlreadyVisited(o, vis) == o \in vis

\* The check of _load_state alone:
\* `if visited_trackables and id(trackable) in visited_trackables`.
LoadAlreadyVisitedNever(o, vis) == FALSE
LoadAlreadyVisited(o, vis) == vis # {} /\ o \in vis

\* `visited_trackables.add(id(trackable))`, made before the loop over the
\* children (in _load_state under `if visited_trackables is not None`, which
\* holds for the set the pass is started with).
MarkVisitedDropped(vis, o) == vis
MarkVisited(vis, o) == vis \cup {o}

\* Whether load_own_variables / load_assets of `o` raises.
Raises(o, what) == wcfg.failing = o /\ wcfg.failwhat = what

\* What a raising load call leads to: with skip_mismatch the exception is
\* caught and a warning issued, otherwise it propagates.
OnLoadErrorAlwaysRaise(skip) == "raise"
OnLoadError(skip) == IF skip THEN "caught" ELSE "raise"

\* _save_state, from its entry to the start of the loop over the children.
SaveEnter ==
    /\ wstatus = "running" /\ wcfg.mode = "save"
    /\ stack # <<>> /\ Top.kind = "enter"
    /\ LET o == Top.obj
           p == Top.path
       IN IF AlreadyVisited(o, visited)
          THEN /\ stack' = Pop
               /\ UNCHANGED <<visited, log>>
          ELSE /\ log' = log
                      \o <<Call("save_own_variables", o, p, TRUE)>>
                      \o (IF wcfg.assets
                          THEN <<Call("save_assets", o, p, TRUE)>>
                          ELSE <<>>)
               /\ visited' = MarkVisited(visited, o)
               /\ stack' = Pop \o <<WalkFrame(o, p, 1)>>
    /\ UNCHANGED <<attrs, wcfg, wstatus>>
    /\ UNCHANGED <<storeVars, ctor, graphVars, moreVars, lateVars>>

\* _load_state, from its entry to the start of the loop over the children.
LoadEnter ==
    /\ wstatus = "running" /\ wcfg.mode = "load"
    /\ stack # <<>> /\ Top.kind = "enter"
    /\ LET o == Top.obj
           p == Top.path
           skip == wcfg.skip_mismatch
           varsFail == Raises(o, "vars")
           assetsFail == wcfg.assets /\ Raises(o, "assets")
           varsCall == <<Call("load_own_variables", o, p, ~varsFail)>>
           assetsCall == IF wcfg.assets
                         THEN <<Call("load_assets", o, p, ~assetsFail)>>
                         ELSE <<>>
       IN IF LoadAlreadyVisited(o, visited)
          THEN /\ stack' = Pop
               /\ UNCHANGED <<visited, log, wstatus>>
          ELSE IF varsFail /\ OnLoadError(skip) = "raise"
          THEN /\ log' = log \o varsCall
               /\ wstatus' = "raised"
               /\ stack' = <<>>
               /\ UNCHANGED visited
          ELSE IF assetsFail /\ OnLoadError(skip) = "raise"
          THEN /\ log' = log \o varsCall \o assetsCall
               /\ wstatus' = "raised"
               /\ stack' = <<>>
               /\ UNCHANGED visited
          ELSE /\ log' = log \o varsCall \o assetsCall
               /\ visited' = MarkVisited(visited, o)
               /\ stack' = Pop \o <<WalkFrame(o, p, 1)>>
               /\ UNCHANGED wstatus
    /\ UNCHANGED <<attrs, wcfg>>
    /\ UNCHANGED <<storeVars, ctor, graphVars, moreVars, lateVars>>

\* One iteration of `for child_attr, child_obj in _walk_trackable(trackable)`
\* (the same loop in _save_state and _load_state).
WalkChild ==
    /\ wstatus = "running"
    /\ stack # <<>> /\ Top.kind = "walk"
    /\ LET f == Top
           children == walk_trackable(f.obj)
       IN IF f.i > Len(children)
          THEN stack' = Pop
          ELSE LET c == children[f.i]
                   next == WalkFrame(f.obj, f.path, f.i + 1)
                   cpath == JoinPath(f.path, <<c.name>>)
               IN IF c.kind = "obj" /\ is_keras_trackable(c.val)
                  THEN stack' = Pop \o <<next, EnterFrame(c.val, cpath)>>
                  ELSE IF c.kind = "container"
                  THEN stack' = Pop \o <<next, ContFrame(c.val, cpath, 1, <<>>)>>
                  ELSE stack' = Pop \o <<next>>
    /\ UNCHANGED <<attrs, wcfg, visited, log, wstatus>>
    /\ UNCHANGED <<storeVars, ctor, graphVars, moreVars, lateVars>>

\* used_names after one more element of snake-case name `name`, and the path
\* component given to that element.
UsedCount(used, name) ==
    Cardinality({k \in 1..Len(used) : used[k] = name})

ElementName(used, name) ==
    IF UsedCount(used, name) > 0
    THEN Suffixed(name, UsedCount(used, name))
    ELSE name

\* One iteration of `for trackable in container` in _save_container_state /
\* _load_container_state.
ContainerElem ==
    /\ wstatus = "running"
    /\ stack # <<>> /\ Top.kind = "cont"
    /\ LET f == Top
       IN IF f.j > Len(f.elems)
          THEN stack' = Pop
          ELSE LET e == f.elems[f.j]
               IN IF is_keras_trackable(e)
                  THEN LET name == to_snake_case(e)
                           comp == ElementName(f.used, name)
                           next == ContFrame(f.elems, f.path, f.j + 1,
                                             Append(f.used, name))
                       IN stack' = Pop \o
                            <<next, EnterFrame(e, JoinPath(f.path, comp))>>
                  ELSE stack' = Pop \o
                         <<ContFrame(f.elems, f.path, f.j + 1, f.used)>>
    /\ UNCHANGED <<attrs, wcfg, visited, log, wstatus>>
    /\ UNCHANGED <<storeVars, ctor, graphVars, moreVars, lateVars>>

\* The outermost call returns.
WalkReturn ==
    /\ wstatus = "running" /\ stack = <<>>
    /\ wstatus' = "done"
    /\ UNCHANGED <<attrs, wcfg, stack, visited, log>>
    /\ UNCHANGED <<storeVars, ctor, graphVars, moreVars, lateVars>>

WalkConfigs ==
    { [mode |-> "save", skip_mismatch |-> FALSE, assets |-> a,
       failing |-> NoObj, failwhat |-> "vars"] : a \in BOOLEAN }
    \cup
    { [mode |-> "load", skip_mismatch |-> s, assets |-> a,
       failing |-> f, failwhat |-> w] :
         s \in BOOLEAN, a \in BOOLEAN, f \in Objs \cup {NoObj},
         w \in {"vars", "assets"} }

InitWalk ==
    /\ attrs \in [Objs -> [child : Objs \cup {NoObj}, items : Containers]]
    /\ attrs["l2"].items = <<>>
    /\ wcfg \in WalkConfigs
    /\ (wcfg.failing = NoObj => wcfg.failwhat = "vars")
    /\ (wcfg.failwhat = "assets" => wcfg.assets)
    \* _save_state(model, ..., inner_path="", visited_trackables=set())
    /\ stack = <<EnterFrame("model", <<>>)>>
    /\ visited = {}
    /\ log = <<>>
    /\ wstatus = "running"
    /\ StoreIdle /\ CtorIdle /\ GraphIdle /\ MoreIdle /\ LateIdle

NextWalk ==
    \/ SaveEnter
    \/ LoadEnter
    \/ WalkChild
    \/ ContainerElem
    \/ WalkReturn

SpecWalk == InitWalk /\ [][NextWalk]_vars

(***************************************************************************)
(*                        SHARDED HDF5 WEIGHTS STORE                        *)
(***************************************************************************)

\* File names are sequences of characters; the extension is kept whole.
EXT == ".weights.h5"
DigitChars == {"0", "1", "2", "3", "4", "5", "6", "7", "8", "9"}

\* str(n) for a natural number n.
RECURSIVE DecStr(_)
DecStr(n) == IF n < 10 THEN <<Digits(n)>> ELSE DecStr(n \div 10) \o <<Digits(n % 10)>>

\* The root_path the store is opened on ("x.weights.h5" on disk,
\* "model.weights.h5" inside an archive).
RootPath == <<"x", EXT>>

\* h5py reports the repr of the file object as File.filename when the file
\* is backed by an io.BytesIO, and "/" as File.name in every case.
BytesIOName == <<"<_io.BytesIO object>">>
H5RootName == <<"/">>

\* str.startswith
StartsWith(str, prefix) ==
    /\ Len(prefix) <= Len(str)
    /\ SubSeq(str, 1, Len(prefix)) = prefix

\* str.endswith(".weights.h5")
EndsWithExt(str) == Len(str) > 0 /\ str[Len(str)] = EXT

\* The positions at which re.compile("_\d\.weights\.h5") matches in `path`.
PatternMatches(path) ==
    {i \in 1..(Len(path) - 2) :
        path[i] = "_" /\ path[i + 1] \in DigitChars /\ path[i + 2] = EXT}

\* pattern.split(path)[0]
PreDuplicate(path) ==
    IF PatternMatches(path) = {} THEN path
    ELSE LET i == CHOOSE k \in PatternMatches(path) :
                      \A m \in PatternMatches(path) : k <= m
         IN SubSeq(path, 1, i - 1)

\* path.replace(".weights.h5", "_1.weights.h5")
RECURSIVE ReplaceExt(_)
ReplaceExt(path) ==
    IF path = <<>> THEN <<>>
    ELSE (IF Head(path) = EXT THEN <<"_", "1", EXT>> ELSE <<Head(path)>>)
         \o ReplaceExt(Tail(path))

\* len(list(filter(lambda x: x.startswith(pre), path_list)))
MatchCount(pre, path_list) ==
    Cardinality({k \in 1..Len(path_list) : StartsWith(path_list[k], pre)})

resolve_duplicate_filename(path, path_list) ==
    LET pre == PreDuplicate(path)
    IN IF ~EndsWithExt(pre) /\ MatchCount(pre, path_list) > 1
       THEN pre \o <<"_">> \o DecStr(MatchCount(pre, path_list)) \o <<EXT>>
       ELSE ReplaceExt(path)

\* convert_str_bytes_to_int for a size given as [num, unit]. Byte counts are
\* kept in units of 100 bytes throughout, so that "10GB" fits a machine
\* integer of TLC.
convert_str_bytes_to_int(size) ==
    CASE size.unit = "GB" -> size.num * (10 ^ 7)
      [] size.unit = "MB" -> size.num * (10 ^ 4)
      [] size.unit = "KB" -> size.num * 10

\* The logical paths used by the sessions explored ("" is the empty path).
StorePaths == { <<>>, <<"a">>, <<"a", "b">>, <<"c">> }

\* The byte sizes of the variables a trackable writes into its group.
VarSizes == {4, 12}

\* group.name of the "vars" group made for `path`: "/" + path + "/vars".
GroupName(path) == <<"/">> \o path \o <<"vars">>

\* dict.get
MapGet(m, k) == IF k \in DOMAIN m THEN m[k] ELSE NoName

\* An HDF5 file is modelled by its "vars" groups: path -> variables.
EmptyH5 == <<>>

\* `path in h5_file`: the group exists, made explicitly or as the parent of
\* another group.
GroupExists(groups, path) ==
    \E q \in DOMAIN groups : StartsWith(q, path)

\* h5_file.visit(_get_size): the bytes of all datasets of the file.
RECURSIVE SumBytes(_, _)
SumBytes(groups, S) ==
    IF S = {} THEN 0
    ELSE LET q == CHOOSE x \in S : TRUE
         IN groups[q].bytes + SumBytes(groups, S \ {q})

ShardSize(groups) == SumBytes(groups, DOMAIN groups)

\* A function extended or overridden at one point.
Put(f, k, v) == [x \in (DOMAIN f) \cup {k} |-> IF x = k THEN v ELSE f[x]]

\* The session left behind by an earlier save on the same root path.
OldValue == [bytes |-> 12, sess |-> "old"]
OldShard1 == <<"x", "_", "1", EXT>>
OldMap == (GroupName(<<>>) :> RootPath) @@ (GroupName(<<"c">>) :> OldShard1)
OldDisk == (RootPath :> (<<>> :> OldValue)) @@ (OldShard1 :> (<<"c">> :> OldValue))
OldZip == << [name |-> RootPath, groups |-> (<<>> :> OldValue)] >>

\* archive.open(name, "r"): the last member written under that name.
ZipHas(name) == \E k \in 1..Len(zip) : zip[k].name = name
ZipRead(name) ==
    zip[CHOOSE k \in 1..Len(zip) :
            /\ zip[k].name = name
            /\ \A j \in 1..Len(zip) : zip[j].name = name => j <= k].groups

\* The handle of an open h5py.File.
Handle(filename, groups) == [filename |-> filename, groups |-> groups, open |-> TRUE]

\* ShardedH5IOStore._create_new_file: [root_path, filename]. The path is
\* renamed when it is in shard_list already.
NewFilePathNoRename(path, shard_list) == path
NewFilePath(path, shard_list) ==
    IF \E k \in 1..Len(shard_list) : shard_list[k] = path
    THEN resolve_duplicate_filename(path, shard_list)
    ELSE path

\* ShardedH5IOStore.__init__(root_path, max_size, archive, mode="w")
OpenWrite ==
    /\ sphase = "none"
    /\ sphase' = "writing"
    /\ store' = [ shard_list |-> <<>>,
                  root_path |-> RootPath,
                  mode |-> "w",
                  max_size |-> convert_str_bytes_to_int(scfg.max_size),
                  current_shard_size |-> 0,
                  var_shard_map |-> IF mapfile.exists THEN mapfile.map ELSE <<>>,
                  h5 |-> Handle(IF scfg.archive THEN BytesIOName ELSE RootPath,
                                EmptyH5) ]
    /\ disk' = IF scfg.archive THEN disk ELSE Put(disk, RootPath, EmptyH5)
    \* save_model writes into a new archive: zipfile.ZipFile(filepath, "w")
    /\ zip' = <<>>
    /\ UNCHANGED <<scfg, mapfile, written, lastGet>>
    /\ UNCHANGED <<walkVars, ctor, graphVars, moreVars, lateVars>>

\* ShardedH5IOStore.close() in write mode: what it leaves in the map file and
\* in the archive.
CloseWriteEffect(st) ==
    [ mapfile |-> [exists |-> TRUE, map |-> st.var_shard_map],
      zip |-> IF scfg.archive
              THEN Append(zip, [name |-> st.root_path, groups |-> st.h5.groups])
              ELSE zip ]

\* Whether make() rolls over to a new shard.
RollsOver(size, max_size) == size > max_size

\* `trackable.save_own_variables(weights_store.make(path))`: make(path),
\* then the trackable writes n bytes of variables into the returned group.
SaveVars(path, n) ==
    /\ sphase = "writing"
    /\ \A k \in 1..Len(written) : written[k].path # path
    /\ LET size == ShardSize(store.h5.groups)
           roll == RollsOver(size, store.max_size)
           closed == CloseWriteEffect(store)
           shard_list == IF roll THEN Append(store.shard_list, store.h5.filename)
                         ELSE store.shard_list
           root_path == IF roll THEN NewFilePath(store.root_path, shard_list)
                        ELSE store.root_path
           groups0 == IF roll THEN EmptyH5 ELSE store.h5.groups
           filename == IF roll
                       THEN (IF scfg.archive THEN BytesIOName ELSE root_path)
                       ELSE store.h5.filename
           exists == IF path = <<>> THEN <<>> \in DOMAIN groups0
                     ELSE GroupExists(groups0, path)
           groups1 == IF exists THEN groups0
                      ELSE Put(groups0, path, [bytes |-> n, sess |-> "new"])
           map1 == IF exists THEN store.var_shard_map
                   ELSE Put(store.var_shard_map, GroupName(path), root_path)
       IN /\ store' = [store EXCEPT
                         !.current_shard_size = size,
                         !.shard_list = shard_list,
                         !.root_path = root_path,
                         !.var_shard_map = map1,
                         !.h5 = Handle(filename, groups1)]
          /\ mapfile' = IF roll THEN closed.mapfile ELSE mapfile
          /\ zip' = IF roll THEN closed.zip ELSE zip
          /\ disk' = IF scfg.archive THEN disk ELSE Put(disk, filename, groups1)
          \* create_group raises ValueError when the group exists already
          /\ written' = Append(written,
                                [path |-> path, error |-> exists,
                                 value |-> IF exists THEN NoValue
                                           ELSE [bytes |-> n, sess |-> "new"]])
    /\ UNCHANGED <<scfg, sphase, lastGet>>
    /\ UNCHANGED <<walkVars, ctor, graphVars, moreVars, lateVars>>

\* ShardedH5IOStore.close() at the end of a write session.
CloseWrite ==
    /\ sphase = "writing"
    /\ sphase' = "written"
    /\ mapfile' = CloseWriteEffect(store).mapfile
    /\ zip' = CloseWriteEffect(store).zip
    /\ store' = [store EXCEPT !.h5.open = FALSE]
    /\ UNCHANGED <<scfg, disk, written, lastGet>>
    /\ UNCHANGED <<walkVars, ctor, graphVars, moreVars, lateVars>>

\* Whether the physical file `filename` can be opened for reading, and its
\* content.
FileExists(filename) ==
    IF scfg.archive THEN ZipHas(filename) ELSE filename \in DOMAIN disk
FileGroups(filename) ==
    IF scfg.archive THEN ZipRead(filename) ELSE disk[filename]

\* An __init__ that opens the HDF5 file before looking for the map file and
\* reads without a map when there is none.
OpenReadWithoutMap ==
    /\ sphase \in {"none", "written"}
    /\ IF ~FileExists(RootPath)
       THEN /\ sphase' = "failed"
            /\ UNCHANGED store
       ELSE /\ sphase' = "reading"
            /\ store' = [ shard_list |-> <<>>,
                          root_path |-> RootPath,
                          mode |-> "r",
                          max_size |-> convert_str_bytes_to_int(
                                           [num |-> 10, unit |-> "GB"]),
                          current_shard_size |-> 0,
                          var_shard_map |-> IF mapfile.exists THEN mapfile.map
                                            ELSE <<>>,
                          h5 |-> Handle(IF scfg.archive THEN BytesIOName
                                        ELSE RootPath,
                                        FileGroups(RootPath)) ]
    /\ UNCHANGED <<scfg, disk, zip, mapfile, written, lastGet>>
    /\ UNCHANGED <<walkVars, ctor, graphVars, moreVars, lateVars>>
\* ShardedH5IOStore.__init__(root_path, archive, mode="r")
OpenRead ==
    /\ sphase \in {"none", "written"}
    /\ IF ~mapfile.exists
       THEN \* FileNotFoundError
            /\ sphase' = "failed"
            /\ UNCHANGED store
       ELSE /\ FileExists(RootPath)
            /\ sphase' = "reading"
            /\ store' = [ shard_list |-> <<>>,
                          root_path |-> RootPath,
                          mode |-> "r",
                          max_size |-> convert_str_bytes_to_int(
                                           [num |-> 10, unit |-> "GB"]),
                          current_shard_size |-> 0,
                          var_shard_map |-> mapfile.map,
                          h5 |-> Handle(IF scfg.archive THEN BytesIOName
                                        ELSE RootPath,
                                        FileGroups(RootPath)) ]
    /\ UNCHANGED <<scfg, disk, zip, mapfile, written, lastGet>>
    /\ UNCHANGED <<walkVars, ctor, graphVars, moreVars, lateVars>>

Found(path, v) == [path |-> path, res |-> "vars", value |-> v]
Empty(path) == [path |-> path, res |-> "empty", value |-> NoValue]
Raised(path) == [path |-> path, res |-> "raise", value |-> NoValue]

\* ShardedH5IOStore.get(path) in a read session. `closedIn` is what
\* `path in h5_file` gives on a file handle that was closed.
Get(path, closedIn) ==
    /\ sphase = "reading"
    /\ LET h == store.h5
           m == store.var_shard_map
           first == MapGet(m, path)
           filename == IF first # NoName THEN first ELSE MapGet(m, GroupName(path))
           closedH == [h EXCEPT !.open = FALSE]
       IN IF path = <<>>
          THEN \* return self.h5_file["vars"]
               /\ lastGet' = IF h.open /\ <<>> \in DOMAIN h.groups
                             THEN Found(path, h.groups[<<>>])
                             ELSE Raised(path)
               /\ UNCHANGED store
          ELSE IF ~h.open /\ closedIn = "raise" /\ path # <<>>
          THEN /\ lastGet' = Raised(path)
               /\ UNCHANGED store
          ELSE IF h.open /\ path # <<>> /\ GroupExists(h.groups, path)
                  /\ path \in DOMAIN h.groups
          THEN /\ lastGet' = Found(path, h.groups[path])
               /\ UNCHANGED store
          ELSE IF filename # NoName /\ H5RootName # filename
          THEN \* _change_access_file(filename)
               IF ~FileExists(filename)
               THEN /\ lastGet' = Raised(path)
                    /\ store' = [store EXCEPT !.h5 = closedH]
               ELSE LET new == FileGroups(filename)
                    IN IF path # <<>> /\ ~GroupExists(new, path)
                       THEN \* new_file[path] raises KeyError
                            /\ lastGet' = Raised(path)
                            /\ store' = [store EXCEPT !.h5 = closedH]
                       ELSE IF path \in DOMAIN new
                       THEN /\ lastGet' = Found(path, new[path])
                            /\ store' = [store EXCEPT !.h5 =
                                  Handle(IF scfg.archive THEN BytesIOName
                                         ELSE filename, new)]
                       ELSE /\ lastGet' = Empty(path)
                            /\ store' = [store EXCEPT !.h5 = closedH]
          ELSE /\ lastGet' = Empty(path)
               /\ UNCHANGED store
    /\ UNCHANGED <<scfg, disk, zip, mapfile, sphase, written>>
    /\ UNCHANGED <<walkVars, ctor, graphVars, moreVars, lateVars>>

\* ShardedH5IOStore.close() at the end of a read session.
CloseRead ==
    /\ sphase = "reading"
    /\ sphase' = "closed"
    /\ store' = [store EXCEPT !.h5.open = FALSE]
    /\ UNCHANGED <<scfg, disk, zip, mapfile, written, lastGet>>
    /\ UNCHANGED <<walkVars, ctor, graphVars, moreVars, lateVars>>

InitStore ==
    \* stale: files of an earlier session are there; map_lost: without
    \* their shard-map file
    /\ scfg \in {c \in [archive : BOOLEAN,
                         max_size : {[num |-> 1, unit |-> "KB"]},
                         stale : BOOLEAN, map_lost : BOOLEAN] :
                    c.map_lost => c.stale}
    /\ disk = IF scfg.stale /\ ~scfg.archive THEN OldDisk ELSE <<>>
    /\ zip = IF scfg.stale /\ scfg.archive THEN OldZip ELSE <<>>
    /\ mapfile = IF scfg.stale /\ ~scfg.map_lost
                 THEN [exists |-> TRUE, map |-> OldMap] ELSE NoMapFile
    /\ store = NoStore
    /\ sphase = "none"
    /\ written = <<>>
    /\ lastGet = NoGet
    /\ WalkIdle /\ CtorIdle /\ GraphIdle /\ MoreIdle /\ LateIdle

NextStore ==
    \/ OpenWrite
    \/ \E path \in StorePaths, n \in VarSizes : SaveVars(path, n)
    \/ CloseWrite
    \/ OpenRead
    \/ \E path \in StorePaths, closedIn \in {"raise", "false"} : Get(path, closedIn)
    \/ CloseRead

SpecStore == InitStore /\ [][NextStore]_vars

(***************************************************************************)
(*                 Functional.__init__: ARGUMENT VALIDATION                 *)
(***************************************************************************)

\* The values given as `inputs` and `outputs`: a KerasTensor with a name,
\* another value, a list/tuple of values, a dict of values.
Tensor(name) == [kind |-> "tensor", name |-> name, items |-> <<>>, keys |-> <<>>]
Other == [kind |-> "other", name |-> "", items |-> <<>>, keys |-> <<>>]
ListOf(items) == [kind |-> "list", name |-> "", items |-> items, keys |-> <<>>]
DictOf(keys, items) == [kind |-> "dict", name |-> "", items |-> items, keys |-> keys]

Leaves == {Tensor("x"), Other}
Keys == {"x", "y"}

\* Structures nested one level deep, and two levels deep.
Nested1 ==
    Leaves
    \cup {ListOf(<<a>>) : a \in Leaves}
    \cup {ListOf(<<a, b>>) : a \in Leaves, b \in Leaves}
    \cup {DictOf(<<k>>, <<a>>) : k \in Keys, a \in Leaves}

Nested2 ==
    Nested1
    \cup {ListOf(<<a>>) : a \in Nested1}
    \cup {ListOf(<<a, Tensor("x")>>) : a \in Nested1}
    \cup {DictOf(<<k>>, <<a>>) : k \in Keys, a \in Nested1}

\* isinstance(v, backend.KerasTensor)
IsKerasTensor(v) == v.kind = "tensor"

\* The checks Functional.__init__ makes on `inputs`, and the same checks on
\* `outputs`: "ok" or "ValueError".
ValidateStructure(v) ==
    IF v.kind \in {"dict", "list"}
    THEN IF \A i \in 1..Len(v.items) : IsKerasTensor(v.items[i])
         THEN "ok" ELSE "ValueError"
    ELSE IF IsKerasTensor(v) THEN "ok" ELSE "ValueError"

\* The warnings issued for the keys of an `inputs` dict that differ from the
\* name of their tensor (up to the first invalid value).
RECURSIVE KeyWarnings(_, _)
KeyWarnings(v, i) ==
    IF v.kind # "dict" \/ i > Len(v.items) THEN 0
    ELSE IF ~IsKerasTensor(v.items[i]) THEN 0
    ELSE (IF v.keys[i] # v.items[i].name THEN 1 ELSE 0) + KeyWarnings(v, i + 1)

\* Functional.__init__(inputs, outputs), up to the end of the validation.
Construct ==
    /\ ctor.result = "pending"
    /\ ctor' = [ctor EXCEPT
                  !.result = IF ValidateStructure(ctor.inputs) = "ValueError"
                             THEN "ValueError"
                             ELSE ValidateStructure(ctor.outputs),
                  !.warnings = KeyWarnings(ctor.inputs, 1)]
    /\ UNCHANGED <<walkVars, storeVars, graphVars, moreVars, lateVars>>

InitCtor ==
    /\ ctor \in [inputs : Nested2, outputs : Nested2,
                 result : {"pending"}, warnings : {0}]
    /\ WalkIdle /\ StoreIdle /\ GraphIdle /\ MoreIdle /\ LateIdle

NextCtor == Construct

SpecCtor == InitCtor /\ [][NextCtor]_vars

(***************************************************************************)
(*              THE FUNCTIONAL GRAPH: OPERATIONS, NODES, TENSORS            *)
(***************************************************************************)

\* The most layer calls made while a graph is built.
MaxCalls == 4

\* A KerasTensor's _keras_history; a tensor just created has none yet.
KerasHistory(operation, node_index, tensor_index) ==
    [operation |-> operation, node_index |-> node_index,
     tensor_index |-> tensor_index]
NoHistory == KerasHistory("", 0, 0)

Range(s) == {s[i] : i \in DOMAIN s}

\* keras.Input creates an InputLayer, whose constructor makes the layer's
\* first node (no arguments) and its output tensor.
InputNode(t) == [args |-> <<>>, outputs |-> <<t>>]
InputLayer(t) == [kind |-> "InputLayer", inbound_nodes |-> <<InputNode(t)>>]
Layer == [kind |-> "Layer", inbound_nodes |-> <<>>]

\* The graph before any layer call: x = Input(), and the layers A and B.
FirstOps == [n \in {"x", "A", "B"} |-> IF n = "x" THEN InputLayer(1) ELSE Layer]
FirstTensors == <<KerasHistory("x", 0, 0)>>

\* A new KerasTensor: the graph with it, its id being the last one.
NewTensor(g) == [g EXCEPT !.tensors = Append(@, NoHistory)]

\* Node(operation, call_args, outputs): the node appends itself to the
\* operation's _inbound_nodes and sets the history of its outputs.
Node(g, operation, call_args, outputs) ==
    LET node_index == Len(g.ops[operation].inbound_nodes)
    IN  [ops |-> [g.ops EXCEPT ![operation].inbound_nodes =
                     Append(@, [args |-> call_args, outputs |-> outputs])],
         tensors |-> [t \in DOMAIN g.tensors |->
                        IF t \in Range(outputs)
                        THEN KerasHistory(operation, node_index,
                                 (CHOOSE j \in DOMAIN outputs : outputs[j] = t) - 1)
                        ELSE g.tensors[t]]]

make_node_key(operation, node_index) == <<operation, node_index>>
TensorNodeKey(g, t) == make_node_key(g.tensors[t].operation, g.tensors[t].node_index)
NodeAt(g, key) == g.ops[key[1]].inbound_nodes[key[2] + 1]

\* node.is_input: the call had no tensor argument.
IsInputNode(node) == node.args = <<>>

is_input_keras_tensor(g, t) == IsInputNode(NodeAt(g, TensorNodeKey(g, t)))

\* _build_map: the nodes found going back from the outputs to the inputs,
\* each after the nodes it depends on.
RECURSIVE build_map_helper(_, _, _, _)
RECURSIVE BuildMapArgs(_, _, _, _, _)
build_map_helper(g, inputs, t, finished) ==
    LET key == TensorNodeKey(g, t)
        node == NodeAt(g, key)
    IN  IF key \in Range(finished) THEN finished
        ELSE IF IsInputNode(node) \/ t \in Range(inputs)
        THEN Append(finished, key)
        ELSE Append(BuildMapArgs(g, inputs, node.args, 1, finished), key)

BuildMapArgs(g, inputs, args, i, finished) ==
    IF i > Len(args) THEN finished
    ELSE BuildMapArgs(g, inputs, args, i + 1,
                      build_map_helper(g, inputs, args[i], finished))

build_map(g, inputs, outputs) == BuildMapArgs(g, inputs, outputs, 1, <<>>)

\* The depth of a node of the model: the longest path to a node without
\* consumers in the model.
Consumers(g, nodes, key) ==
    {c \in nodes : \E i \in DOMAIN NodeAt(g, c).args :
                      TensorNodeKey(g, NodeAt(g, c).args[i]) = key}

SetMax(S) == CHOOSE m \in S : \A n \in S : n <= m

RECURSIVE NodeDepth(_, _, _)
NodeDepth(g, nodes, key) ==
    IF Consumers(g, nodes, key) \ {key} = {} THEN 0
    ELSE 1 + SetMax({NodeDepth(g, nodes, c) : c \in Consumers(g, nodes, key) \ {key}})

OperationDepth(g, nodes, operation) ==
    SetMax({NodeDepth(g, nodes, k) : k \in {n \in nodes : n[1] = operation}})

FirstTensor(g, operation) == g.ops[operation].inbound_nodes[1].outputs[1]

\* The operations of the model, the deepest first (the input layers), those
\* of one depth in the order in which they were first called.
ComesBefore(depth, called, a, b) ==
    \/ depth[a] > depth[b]
    \/ depth[a] = depth[b] /\ called[a] < called[b]

RECURSIVE SortOperations(_, _, _)
SortOperations(depth, called, S) ==
    IF S = {} THEN <<>>
    ELSE LET first == CHOOSE a \in S : \A b \in S \ {a} : ComesBefore(depth, called, a, b)
         IN  <<first>> \o SortOperations(depth, called, S \ {first})

\* Function.__init__(inputs, outputs): the nodes of the model and its
\* operations in order.
NoModel == [built |-> FALSE, inputs |-> <<>>, outputs |-> <<>>, nodes |-> {},
            operations |-> <<>>]

FunctionInit(g, inputs, outputs) ==
    LET nodes == Range(build_map(g, inputs, outputs))
                    \cup {TensorNodeKey(g, inputs[i]) : i \in DOMAIN inputs}
        operations == {k[1] : k \in nodes}
        depth == [n \in operations |-> OperationDepth(g, nodes, n)]
        called == [n \in operations |-> FirstTensor(g, n)]
    IN  [built |-> TRUE, inputs |-> inputs, outputs |-> outputs, nodes |-> nodes,
         operations |-> SortOperations(depth, called, operations)]

(***************************************************************************)
(*                    Functional.get_config AND ITS CONFIG                  *)
(***************************************************************************)

NoConfig == [format |-> "none", layers |-> <<>>, input_layers |-> <<>>,
             output_layers |-> <<>>]

\* node_reindexing_map[node_key]: the number of nodes of the operation that
\* are in the model and come before this one.
node_reindexing_map(fm, key) ==
    Cardinality({i \in 0..(key[2] - 1) : make_node_key(key[1], i) \in fm.nodes})

\* A KerasTensor among the serialized arguments: the placeholder
\* (operation name, node index, tensor index) of its history.
serialize_keras_tensor(g, t) == g.tensors[t]

\* serialize_node(node, node_reindexing_map): the arguments of the call; the
\* map is not used.
serialize_node(g, node) ==
    [i \in DOMAIN node.args |-> serialize_keras_tensor(g, node.args[i])]

\* filtered_inbound_nodes of an operation, from its i-th node on.
RECURSIVE FilteredInboundNodes(_, _, _, _)
FilteredInboundNodes(g, fm, operation, i) ==
    IF i > Len(g.ops[operation].inbound_nodes) THEN <<>>
    ELSE LET node == g.ops[operation].inbound_nodes[i]
         IN  (IF make_node_key(operation, i - 1) \in fm.nodes /\ ~IsInputNode(node)
              THEN <<serialize_node(g, node)>> ELSE <<>>)
             \o FilteredInboundNodes(g, fm, operation, i + 1)

get_tensor_config(g, fm, t) ==
    KerasHistory(g.tensors[t].operation,
                 node_reindexing_map(fm, TensorNodeKey(g, t)),
                 g.tensors[t].tensor_index)

map_tensors(g, fm, ts) == [i \in DOMAIN ts |-> get_tensor_config(g, fm, ts[i])]

get_config(g, fm) ==
    [format |-> "current",
     layers |-> [i \in DOMAIN fm.operations |->
                   [name |-> fm.operations[i],
                    class_name |-> g.ops[fm.operations[i]].kind,
                    inbound_nodes |->
                        FilteredInboundNodes(g, fm, fm.operations[i], 1)]],
     input_layers |-> map_tensors(g, fm, fm.inputs),
     output_layers |-> map_tensors(g, fm, fm.outputs)]

\* The configs read from a file, in the current or in the legacy format: the
\* layers x, A and B, with up to two calls each of A and of B.
ConfigRefs ==
    {KerasHistory(n, i, 0) : n \in {"A", "B"}, i \in {0, 1}}
        \cup {KerasHistory("x", 0, 0)}

NodeDataLists ==
    {<<>>} \cup {<<(<<r>>)>> : r \in ConfigRefs}
           \cup {<<(<<r>>), (<<q>>)>> : r \in ConfigRefs, q \in ConfigRefs}

FileConfigs ==
    {[format |-> f,
      layers |-> <<[name |-> "x", class_name |-> "InputLayer", inbound_nodes |-> <<>>],
                   [name |-> "A", class_name |-> "Layer", inbound_nodes |-> a],
                   [name |-> "B", class_name |-> "Layer", inbound_nodes |-> b]>>,
      input_layers |-> <<KerasHistory("x", 0, 0)>>,
      output_layers |-> <<o>>] :
        f \in {"current", "legacy"}, a \in NodeDataLists, b \in NodeDataLists,
        o \in {KerasHistory("A", 0, 0), KerasHistory("B", 0, 0)}}

(***************************************************************************)
(*                          functional_from_config                          *)
(***************************************************************************)

NoReplay == [phase |-> "idle", created |-> [n \in {"x"} |-> <<>>],
             unprocessed |-> [n \in {"x"} |-> <<>>], li |-> 0, replayed |-> 0,
             idle |-> FALSE, error |-> "none", failed |-> NoHistory,
             inputs |-> <<>>, outputs |-> <<>>]

\* The node a replayed call makes: its output tensor is known by its history.
CreatedNode(args, name, node_index) ==
    [args |-> args, outputs |-> <<KerasHistory(name, node_index, 0)>>]

\* What looking up one tensor reference raises, if anything.
ResolveError(ref, created, format) ==
    IF format = "legacy"
    THEN IF ref.operation \notin DOMAIN created THEN "KeyError"
         ELSE IF Len(created[ref.operation]) <= ref.node_index THEN "IndexError"
         ELSE IF Len(created[ref.operation][ref.node_index + 1].outputs)
                    <= ref.tensor_index THEN "IndexError"
         ELSE "none"
    ELSE IF ref.operation \notin DOMAIN created THEN "ValueError"
         ELSE IF Len(created[ref.operation]) <= ref.node_index THEN "ValueError"
         ELSE IF Len(created[ref.operation][ref.node_index + 1].outputs)
                    <= ref.tensor_index THEN "IndexError"
         ELSE "none"

\* deserialize_node(node_data, created_layers): the arguments of the call, or
\* the first exception raised.
deserialize_node(node_data, created, format) ==
    LET bad == {i \in DOMAIN node_data :
                   ResolveError(node_data[i], created, format) # "none"}
    IN  IF bad = {}
        THEN [error |-> "none", failed |-> NoHistory,
              args |-> [i \in DOMAIN node_data |->
                          created[node_data[i].operation]
                              [node_data[i].node_index + 1]
                              .outputs[node_data[i].tensor_index + 1]]]
        ELSE LET first == CHOOSE i \in bad : \A j \in bad : i <= j
             IN  [error |-> ResolveError(node_data[first], created, format),
                  failed |-> node_data[first], args |-> <<>>]

\* The inner loop over node_data_list: process_node for each queued call of
\* the layer in order, stopping at the first IndexError.
RECURSIVE ProcessNodes(_, _, _, _)
ProcessNodes(created, name, node_data_list, format) ==
    IF node_data_list = <<>>
    THEN [created |-> created, rest |-> <<>>, error |-> "none",
          failed |-> NoHistory, count |-> 0]
    ELSE LET r == deserialize_node(node_data_list[1], created, format)
             called == [created EXCEPT ![name] =
                          Append(@, CreatedNode(r.args, name, Len(created[name])))]
         IN  IF r.error = "none"
             THEN [ProcessNodes(called, name, Tail(node_data_list), format)
                       EXCEPT !.count = @ + 1]
             ELSE IF r.error = "IndexError"
             THEN [created |-> created, rest |-> node_data_list, error |-> "none",
                   failed |-> NoHistory, count |-> 0]
             ELSE [created |-> created, rest |-> node_data_list, error |-> r.error,
                   failed |-> r.failed, count |-> 0]

(***************************************************************************)
(*                            clone_graph_nodes                             *)
(***************************************************************************)

\* kt_id_mapping and op_id_mapping: dicts as sets of <<key, value>>.
Has(m, k) == \E p \in m : p[1] = k
Lookup(m, k) == (CHOOSE p \in m : p[1] = k)[2]
Bind(m, k, v) == {p \in m : p[1] # k} \cup {<<k, v>>}

\* The name of the InputLayer made for the i-th of the inputs.
CloneNames == <<"c1", "c2">>

\* keras.Input(...) under a new name: the layer, its node and its tensor.
Input(g, name) ==
    [ops |-> [n \in DOMAIN g.ops \cup {name} |->
                IF n = name THEN InputLayer(Len(g.tensors) + 1) ELSE g.ops[n]],
     tensors |-> Append(g.tensors, KerasHistory(name, 0, 0))]

\* clone_single_keras_tensor(x): a new tensor, without history.
clone_single_keras_tensor(g) == NewTensor(g)

\* clone_keras_tensors(tensors, kt_id_mapping): the tensors cloned before
\* are reused, the others are cloned and recorded.
RECURSIVE clone_keras_tensors(_, _, _, _)
clone_keras_tensors(c, ts, i, out) ==
    IF i > Len(ts) THEN [c |-> c, out |-> out]
    ELSE IF Has(c.kt, ts[i])
    THEN clone_keras_tensors(c, ts, i + 1, Append(out, Lookup(c.kt, ts[i])))
    ELSE LET g == clone_single_keras_tensor(c.g)
             new_x == Len(g.tensors)
         IN  clone_keras_tensors([c EXCEPT !.g = g, !.kt = Bind(@, ts[i], new_x)],
                                 ts, i + 1, Append(out, new_x))

\* The loop over the inputs.
RECURSIVE CloneInputs(_, _, _)
CloneInputs(c, inputs, i) ==
    IF i > Len(inputs) THEN c
    ELSE LET kt_input == inputs[i]
             g == Input(c.g, CloneNames[i])
             cloned_input == Len(g.tensors)
         IN  IF is_input_keras_tensor(c.g, kt_input)
             THEN CloneInputs([c EXCEPT
                                 !.cloned_inputs = Append(@, kt_input),
                                 !.kt = Bind(@, kt_input, kt_input)],
                              inputs, i + 1)
             ELSE CloneInputs([c EXCEPT
                                 !.g = g,
                                 !.cloned_inputs = Append(@, cloned_input),
                                 !.kt = Bind(@, kt_input, cloned_input),
                                 !.op = Bind(@, c.g.tensors[kt_input].operation,
                                             CloneNames[i])],
                              inputs, i + 1)

\* The loop over the outputs: each copy starts with the history of its
\* original.
RECURSIVE CloneOutputs(_, _, _)
CloneOutputs(c, outputs, i) ==
    IF i > Len(outputs) THEN c
    ELSE LET kt_output == outputs[i]
             g == clone_single_keras_tensor(c.g)
             cpy == Len(g.tensors)
         IN  CloneOutputs([c EXCEPT
                             !.g = [g EXCEPT !.tensors[cpy] = c.g.tensors[kt_output]],
                             !.cloned_outputs = Append(@, cpy),
                             !.kt = Bind(@, kt_output, cpy)],
                          outputs, i + 1)

\* The loop over nodes_to_clone: a new Node for each.
RECURSIVE CloneNodes(_, _, _)
CloneNodes(c, nodes_to_clone, i) ==
    IF i > Len(nodes_to_clone) THEN c
    ELSE LET node == NodeAt(c.g, nodes_to_clone[i])
             operation == IF Has(c.op, nodes_to_clone[i][1])
                          THEN Lookup(c.op, nodes_to_clone[i][1])
                          ELSE nodes_to_clone[i][1]
             output_copy == clone_keras_tensors(c, node.outputs, 1, <<>>)
             call_args_copy ==
                 IF c.g.ops[operation].kind # "InputLayer"
                 THEN clone_keras_tensors(output_copy.c, node.args, 1, <<>>)
                 ELSE [c |-> output_copy.c, out |-> <<>>]
             made == [source |-> nodes_to_clone[i], operation |-> operation,
                      node_index |-> Len(c.g.ops[operation].inbound_nodes)]
         IN  CloneNodes([call_args_copy.c EXCEPT
                           !.g = Node(call_args_copy.c.g, operation,
                                      call_args_copy.out, output_copy.out),
                           !.made = Append(@, made)],
                        nodes_to_clone, i + 1)

find_nodes_by_inputs_and_outputs(g, inputs, outputs) == build_map(g, inputs, outputs)

clone_graph_nodes(g, inputs, outputs) ==
    CloneNodes(
        CloneOutputs(
            CloneInputs([g |-> g, kt |-> {}, op |-> {}, cloned_inputs |-> <<>>,
                         cloned_outputs |-> <<>>, made |-> <<>>],
                        inputs, 1),
            outputs, 1),
        find_nodes_by_inputs_and_outputs(g, inputs, outputs), 1)

(***************************************************************************)
(*                 BUILDING GRAPHS AND FUNCTIONAL MODELS                    *)
(***************************************************************************)

NoClone == [done |-> FALSE, inputs |-> <<>>, outputs |-> <<>>,
            cloned_inputs |-> <<>>, cloned_outputs |-> <<>>,
            nodes_to_clone |-> <<>>, made |-> <<>>,
            before |-> [ops |-> FirstOps, tensors |-> FirstTensors]]

Graph == [ops |-> ops, tensors |-> tensors]

\* The first steps a program can take: none of them has been taken yet.
Building == ~fmodel.built /\ config.format = "none"

\* layer(t): the call makes a node with a new output tensor.
LayerCall(operation, t) ==
    /\ Building
    /\ Len(tensors) <= MaxCalls
    /\ ops[operation].kind = "Layer"
    /\ LET g == Node(NewTensor(Graph), operation, <<t>>, <<Len(tensors) + 1>>)
       IN  ops' = g.ops /\ tensors' = g.tensors
    /\ UNCHANGED <<fmodel, config, rp, cl, walkVars, storeVars, ctor, moreVars, lateVars>>

\* The lists of one or two different tensors.
TensorLists(n) ==
    {<<t>> : t \in 1..n}
        \cup {p \in {<<t, u>> : t \in 1..n, u \in 1..n} : p[1] < p[2]}

\* Functional(inputs, outputs) for lists of tensors: when an input is not
\* an input tensor the nodes are cloned; then the Function is built.
Functional(inputs, outputs) ==
    /\ IF \A i \in DOMAIN inputs : is_input_keras_tensor(Graph, inputs[i])
       THEN /\ fmodel' = FunctionInit(Graph, inputs, outputs)
            /\ UNCHANGED <<ops, tensors, cl>>
       ELSE LET c == clone_graph_nodes(Graph, inputs, outputs)
            IN  /\ ops' = c.g.ops /\ tensors' = c.g.tensors
                /\ fmodel' = FunctionInit(c.g, c.cloned_inputs, c.cloned_outputs)
                /\ cl' = [done |-> TRUE, inputs |-> inputs, outputs |-> outputs,
                          cloned_inputs |-> c.cloned_inputs,
                          cloned_outputs |-> c.cloned_outputs,
                          nodes_to_clone |->
                              find_nodes_by_inputs_and_outputs(Graph, inputs, outputs),
                          made |-> c.made, before |-> Graph]
    /\ UNCHANGED <<config, rp, walkVars, storeVars, ctor, moreVars, lateVars>>

\* A model from the input tensor x to one or two tensors of the graph.
MakeModel ==
    /\ Building
    /\ \E outputs \in TensorLists(Len(tensors)) : Functional(<<1>>, outputs)

\* A model between any tensors of the graph.
MakeSubModel ==
    /\ Building
    /\ \E inputs \in TensorLists(Len(tensors)) :
          \E outputs \in TensorLists(Len(tensors)) : Functional(inputs, outputs)

\* model.get_config()
GetConfig ==
    /\ fmodel.built /\ config.format = "none"
    /\ config' =
         IF \A t \in Range(fmodel.inputs) \cup Range(fmodel.outputs) :
                TensorNodeKey(Graph, t) \in fmodel.nodes
         THEN get_config(Graph, fmodel)
         ELSE [NoConfig EXCEPT !.format = "AssertionError"]
    /\ UNCHANGED <<ops, tensors, fmodel, rp, cl, walkVars, storeVars, ctor, moreVars, lateVars>>

\* A config read from a file instead.
TakeConfig ==
    /\ Building /\ Len(tensors) = Len(FirstTensors)
    /\ \E c \in FileConfigs : config' = c
    /\ UNCHANGED <<ops, tensors, fmodel, rp, cl, walkVars, storeVars, ctor, moreVars, lateVars>>

LayerNames == {config.layers[i].name : i \in DOMAIN config.layers}
LayerData(name) == config.layers[CHOOSE i \in DOMAIN config.layers :
                                    config.layers[i].name = name]

\* functional_from_config, first loop: process_layer creates every layer and
\* queues its calls.
CreateLayers ==
    /\ config.format \in {"current", "legacy"} /\ rp.phase = "idle"
    /\ rp' = [rp EXCEPT
                !.created = [n \in LayerNames |->
                               IF LayerData(n).class_name = "InputLayer"
                               THEN <<CreatedNode(<<>>, n, 0)>> ELSE <<>>],
                !.unprocessed = [n \in LayerNames |-> LayerData(n).inbound_nodes],
                !.li = 1,
                !.phase = IF \A n \in LayerNames : LayerData(n).inbound_nodes = <<>>
                          THEN "replayed" ELSE "replay"]
    /\ UNCHANGED <<ops, tensors, fmodel, config, cl, walkVars, storeVars, ctor, moreVars, lateVars>>

\* One turn of the for loop inside `while unprocessed_nodes`: the queued
\* calls of one layer; after the last layer the while condition is tested.
ReplayLayer ==
    /\ rp.phase = "replay"
    /\ LET name == config.layers[rp.li].name
           r == ProcessNodes(rp.created, name, rp.unprocessed[name], config.format)
           unprocessed == [rp.unprocessed EXCEPT ![name] = r.rest]
           replayed == rp.replayed + r.count
       IN  rp' =
             IF r.error # "none"
             THEN [rp EXCEPT !.created = r.created, !.phase = "error",
                             !.error = r.error, !.failed = r.failed]
             ELSE IF rp.li < Len(config.layers)
             THEN [rp EXCEPT !.created = r.created, !.unprocessed = unprocessed,
                             !.replayed = replayed, !.li = @ + 1]
             ELSE IF \A n \in LayerNames : unprocessed[n] = <<>>
             THEN [rp EXCEPT !.created = r.created, !.unprocessed = unprocessed,
                             !.replayed = replayed, !.phase = "replayed"]
             ELSE [rp EXCEPT !.created = r.created, !.unprocessed = unprocessed,
                             !.replayed = 0, !.idle = (replayed = 0), !.li = 1]
    /\ UNCHANGED <<ops, tensors, fmodel, config, cl, walkVars, storeVars, ctor, moreVars, lateVars>>

\* get_tensor(layer_name, node_index, tensor_index): what it raises, if
\* anything.
GetTensorError(ref) ==
    IF ref.operation \notin DOMAIN rp.created THEN "AssertionError"
    ELSE IF Len(rp.created[ref.operation]) <= ref.node_index THEN "IndexError"
    ELSE IF Len(rp.created[ref.operation][ref.node_index + 1].outputs)
               <= ref.tensor_index THEN "IndexError"
    ELSE "none"

get_tensor(ref) ==
    rp.created[ref.operation][ref.node_index + 1].outputs[ref.tensor_index + 1]

\* The end of functional_from_config: the input and output tensors are
\* looked up and the model is made of them.
Finish ==
    /\ rp.phase = "replayed"
    /\ LET refs == config.input_layers \o config.output_layers
           bad == {i \in DOMAIN refs : GetTensorError(refs[i]) # "none"}
       IN  rp' =
             IF bad # {}
             THEN LET first == CHOOSE i \in bad : \A j \in bad : i <= j
                  IN  [rp EXCEPT !.phase = "error",
                                 !.error = GetTensorError(refs[first]),
                                 !.failed = refs[first]]
             ELSE [rp EXCEPT !.phase = "built",
                             !.inputs = [i \in DOMAIN config.input_layers |->
                                           get_tensor(config.input_layers[i])],
                             !.outputs = [i \in DOMAIN config.output_layers |->
                                            get_tensor(config.output_layers[i])]]
    /\ UNCHANGED <<ops, tensors, fmodel, config, cl, walkVars, storeVars, ctor, moreVars, lateVars>>

InitGraph ==
    /\ ops = FirstOps /\ tensors = FirstTensors
    /\ fmodel = NoModel /\ config = NoConfig /\ rp = NoReplay /\ cl = NoClone
    /\ WalkIdle /\ StoreIdle /\ CtorIdle /\ MoreIdle /\ LateIdle

NextConfig ==
    \/ \E operation \in {"A", "B"} : \E t \in 1..Len(tensors) : LayerCall(operation, t)
    \/ MakeModel
    \/ GetConfig
    \/ TakeConfig
    \/ CreateLayers
    \/ ReplayLayer
    \/ Finish

SpecConfig == InitGraph /\ [][NextConfig]_vars

NextClone ==
    \/ \E operation \in {"A", "B"} : \E t \in 1..Len(tensors) : LayerCall(operation, t)
    \/ MakeSubModel

SpecClone == InitGraph /\ [][NextClone]_vars

(***************************************************************************)
(*                    PROPERTIES OF THE STATE WALKER                        *)
(***************************************************************************)

\* The number of calls `name` made on trackable `o` so far.
CallCount(name, o) ==
    Cardinality({k \in 1..Len(log) : log[k].call = name /\ log[k].obj = o})

\* The trackables the walk can reach from the root model.
Children(o) ==
    ({attrs[o].child} \cup {attrs[o].items[k] : k \in 1..Len(attrs[o].items)})
        \cap Objs

RECURSIVE ReachFrom(_, _)
ReachFrom(S, n) ==
    IF n = 0 THEN S
    ELSE ReachFrom(S \cup UNION {Children(o) : o \in S}, n - 1)

Reachable == ReachFrom({"model"}, Cardinality(Objs))

\* C1: in one save pass and in one load pass started with an empty visited
\* set, every trackable has each of save_own_variables, save_assets,
\* load_own_variables and load_assets invoked at most once, whatever the
\* sharing and the cycles of the object graph.
C1_VisitedAtMostOnce ==
    \A o \in Objs :
        \A name \in {"save_own_variables", "save_assets",
                     "load_own_variables", "load_assets"} :
            CallCount(name, o) <= 1

\* A finished save pass over a graph in which l2 is reachable through two
\* attribute paths and refers back to its owning model.
C1_Witness ==
    /\ wstatus = "done" /\ wcfg.mode = "save" /\ wcfg.assets
    /\ attrs["model"].items = <<"l1", "l2">>
    /\ attrs["l1"].child = "l2"
    /\ attrs["l2"].child = "model"
    /\ CallCount("save_own_variables", "l2") = 1
    /\ CallCount("save_assets", "model") = 1

\* C5: with skip_mismatch=True a load never raises and, once it is done,
\* every reachable trackable has had load_own_variables (and load_assets when
\* there is an asset store) called, successfully unless it is the failing
\* one; with skip_mismatch=False a failing call is the last call of the pass
\* and the pass has raised.
C5_SkipMismatch ==
    wcfg.mode = "load" =>
        IF wcfg.skip_mismatch
        THEN /\ wstatus # "raised"
             /\ wstatus = "done" =>
                  \A o \in Reachable :
                    /\ \E k \in 1..Len(log) :
                         /\ log[k].call = "load_own_variables"
                         /\ log[k].obj = o
                         /\ log[k].ok = ~Raises(o, "vars")
                    /\ wcfg.assets =>
                         \E k \in 1..Len(log) :
                           /\ log[k].call = "load_assets"
                           /\ log[k].obj = o
                           /\ log[k].ok = ~Raises(o, "assets")
        ELSE \A k \in 1..Len(log) :
                ~log[k].ok => (k = Len(log) /\ wstatus = "raised")

\* A finished load with skip_mismatch in which l1 failed to load its
\* variables and another trackable was loaded after it.
C5_Witness ==
    /\ wstatus = "done" /\ wcfg.mode = "load" /\ wcfg.skip_mismatch
    /\ \E k \in 1..Len(log) :
         /\ ~log[k].ok /\ log[k].obj = "l1"
         /\ \E j \in (k + 1)..Len(log) :
              log[j].call = "load_own_variables" /\ log[j].ok

(***************************************************************************)
(*                    PROPERTIES OF THE SHARDED STORE                       *)
(***************************************************************************)

\* The bytes written by the first n make() calls of the write session.
RECURSIVE WrittenBytes(_)
WrittenBytes(n) ==
    IF n = 0 THEN 0 ELSE written[n].value.bytes + WrittenBytes(n - 1)

\* The shard files the write session has created: on disk the distinct file
\* names it opened, in an archive the members it wrote.
PhysicalShards ==
    IF scfg.archive
    THEN Len(zip)
    ELSE Cardinality({store.shard_list[k] : k \in 1..Len(store.shard_list)}
                     \cup {store.h5.filename})

WasMade(path) ==
    \E k \in 1..Len(written) : written[k].path = path /\ ~written[k].error
ValueMade(path) ==
    written[CHOOSE k \in 1..Len(written) : written[k].path = path].value

\* The shard files named by the shard map.
MapShards == {mapfile.map[k] : k \in DOMAIN mapfile.map}

\* C4: in a read session that follows a write session on disk which made the
\* root path first, made every path without error and used several shards,
\* every get(p) of a path that was made returns the variables written under
\* p, whatever get() calls came before.
C4_GetReturnsWritten ==
    ( /\ sphase = "reading" /\ ~scfg.archive /\ ~scfg.stale
      /\ Len(written) > 0 /\ written[1].path = <<>>
      /\ \A k \in 1..Len(written) : ~written[k].error
      /\ Cardinality(MapShards) > 1
      /\ lastGet.res # "none" /\ WasMade(lastGet.path) )
        => lastGet = Found(lastGet.path, ValueMade(lastGet.path))

(***************************************************************************)
(*                 PROPERTIES OF THE ARGUMENT VALIDATION                    *)
(***************************************************************************)

\* Whether every leaf of a structure is a KerasTensor.
RECURSIVE AllLeavesTensors(_)
AllLeavesTensors(v) ==
    IF v.kind \in {"dict", "list"}
    THEN \A i \in 1..Len(v.items) : AllLeavesTensors(v.items[i])
    ELSE IsKerasTensor(v)

\* C8: the validation of Functional.__init__ raises ValueError exactly when
\* some leaf of inputs or outputs is not a KerasTensor, whatever the depth of
\* nesting (a dict key that differs from its tensor's name never raises).
C8_RaisesIffNonTensorLeaf ==
    ctor.result # "pending" =>
        (ctor.result = "ValueError"
            <=> ~(AllLeavesTensors(ctor.inputs) /\ AllLeavesTensors(ctor.outputs)))

(***************************************************************************)
(*                    PROPERTIES OF THE CONFIG ROUND TRIP                   *)
(***************************************************************************)

\* The reference to a tensor of the model once only the nodes of the model
\* are counted.
Reindexed(h) ==
    KerasHistory(h.operation,
                 node_reindexing_map(fmodel, make_node_key(h.operation, h.node_index)),
                 h.tensor_index)

KeptNodes(operation) == {k \in fmodel.nodes : k[1] = operation}

\* The rebuilt model has the layers of the original, a node for each node of
\* the original with the same producers for its arguments, and the same
\* input and output references.
SameLayerNames == DOMAIN rp.created = Range(fmodel.operations)

SameTopology ==
    \A operation \in Range(fmodel.operations) :
        /\ operation \in DOMAIN rp.created
        /\ Len(rp.created[operation]) = Cardinality(KeptNodes(operation))
        /\ \A k \in KeptNodes(operation) :
             rp.created[operation][node_reindexing_map(fmodel, k) + 1].args
                = [i \in DOMAIN NodeAt(Graph, k).args |->
                     Reindexed(tensors[NodeAt(Graph, k).args[i]])]

SameReferences ==
    /\ rp.inputs = [i \in DOMAIN fmodel.inputs |-> Reindexed(tensors[fmodel.inputs[i]])]
    /\ rp.outputs = [i \in DOMAIN fmodel.outputs |-> Reindexed(tensors[fmodel.outputs[i]])]

\* C2: functional_from_config(model.get_config()) returns a model with the
\* layer names, the node topology and the input/output references of the
\* original, also when layers of the model were called outside it.
C2_ConfigRoundTrip ==
    (fmodel.built /\ rp.phase \in {"built", "error"}) =>
        (rp.phase = "built" /\ SameLayerNames /\ SameTopology /\ SameReferences)

\* Whether the queued calls can all be replayed in some order: as long as
\* some layer's next call has all its arguments, that call is made.
Satisfied(ref, count) ==
    ref.operation \in DOMAIN count /\ ref.node_index < count[ref.operation]

RECURSIVE Drains(_, _)
Drains(count, pending) ==
    LET ready == {n \in DOMAIN pending :
                    /\ pending[n] # <<>>
                    /\ \A i \in DOMAIN pending[n][1] :
                          Satisfied(pending[n][1][i], count)}
    IN  IF ready = {} THEN \A n \in DOMAIN pending : pending[n] = <<>>
        ELSE LET n == CHOOSE m \in ready : TRUE
             IN  Drains([count EXCEPT ![n] = @ + 1],
                        [pending EXCEPT ![n] = Tail(@)])

Replayable ==
    Drains([n \in LayerNames |->
              IF LayerData(n).class_name = "InputLayer" THEN 1 ELSE 0],
           [n \in LayerNames |-> LayerData(n).inbound_nodes])

\* C6: in either format of node data, when the calls of a config can all be
\* replayed in some order, a queued call whose argument refers to a node
\* that is not created yet is deferred: functional_from_config does not fail
\* on such a reference.
C6_MissingNodeIsDeferred ==
    ~(/\ rp.phase = "error"
      /\ Replayable
      /\ \E n \in DOMAIN rp.unprocessed : rp.unprocessed[n] # <<>>
      /\ rp.failed.operation \in DOMAIN rp.created
      /\ Len(rp.created[rp.failed.operation]) <= rp.failed.node_index)

\* C7: after a full pass over the layers in which no queued call could be
\* replayed, functional_from_config raises an error; it does not start
\* another pass.
C7_IdlePassRaises == rp.idle => rp.phase = "error"

(***************************************************************************)
(*                      PROPERTIES OF clone_graph_nodes                     *)
(***************************************************************************)

\* C9: clone_graph_nodes leaves the original graph as it was: every tensor
\* that existed keeps its history, and every operation keeps its nodes, with
\* their arguments and outputs, at their indices (new nodes come after them).
C9_OriginalGraphKept ==
    cl.done =>
        /\ \A t \in DOMAIN cl.before.tensors : tensors[t] = cl.before.tensors[t]
        /\ \A n \in DOMAIN cl.before.ops :
             /\ n \in DOMAIN ops
             /\ Len(ops[n].inbound_nodes) >= Len(cl.before.ops[n].inbound_nodes)
             /\ \A i \in DOMAIN cl.before.ops[n].inbound_nodes :
                  ops[n].inbound_nodes[i] = cl.before.ops[n].inbound_nodes[i]

\* The nodes that produced the inputs that are not input tensors.
IntermediateInputs ==
    {t \in Range(cl.inputs) : ~is_input_keras_tensor(cl.before, t)}
InputProducers == {TensorNodeKey(cl.before, t) : t \in IntermediateInputs}

\* C10: clone_graph_nodes makes one new node for each node between inputs and
\* outputs; the new node calls the operation of its original, except for the
\* producer of an intermediate input, which becomes a node of a new
\* InputLayer; input tensors are reused and each intermediate input gets a
\* new tensor.
C10_OneNodePerNodeSameOperation ==
    cl.done =>
        /\ Len(cl.made) = Len(cl.nodes_to_clone)
        /\ \A i \in DOMAIN cl.made :
             /\ cl.made[i].source = cl.nodes_to_clone[i]
             /\ IF cl.made[i].source \in InputProducers
                THEN /\ cl.made[i].operation \notin DOMAIN cl.before.ops
                     /\ ops[cl.made[i].operation].kind = "InputLayer"
                ELSE cl.made[i].operation = cl.made[i].source[1]
        /\ \A i \in DOMAIN cl.inputs :
             IF cl.inputs[i] \in IntermediateInputs
             THEN /\ cl.cloned_inputs[i] > Len(cl.before.tensors)
                  /\ \A j \in DOMAIN cl.inputs :
                       cl.cloned_inputs[j] = cl.cloned_inputs[i] => j = i
             ELSE cl.cloned_inputs[i] = cl.inputs[i]

\* ---------------------------------------------------------------------------
\* Functional.__init__: the check of the output activations
\* (functional.py, _check_output_activation_softmax)
\* ---------------------------------------------------------------------------

\* The number of outputs of the models constructed.
MaxOutputs == 2

\* What the check reads of an activation: whether it is an instance of the
\* Softmax layer, the axis attribute of that instance, and whether the text
\* of its signature contains "axis=-1" or "axis=None".  `softmax` records
\* what the activation computes.
Activations ==
    { [name |-> "softmax", softmax |-> TRUE, is_layer |-> FALSE,
       signature |-> "(x, axis=-1)", axis |-> -1],
      [name |-> "Softmax(axis=-1)", softmax |-> TRUE, is_layer |-> TRUE,
       signature |-> "(*args, **kwargs)", axis |-> -1],
      [name |-> "Softmax(axis=1)", softmax |-> TRUE, is_layer |-> TRUE,
       signature |-> "(*args, **kwargs)", axis |-> 1],
      [name |-> "log_softmax", softmax |-> FALSE, is_layer |-> FALSE,
       signature |-> "(x, axis=-1)", axis |-> -1],
      [name |-> "user_norm", softmax |-> FALSE, is_layer |-> FALSE,
       signature |-> "(x, axis=None)", axis |-> -1],
      [name |-> "relu", softmax |-> FALSE, is_layer |-> FALSE,
       signature |-> "(x, negative_slope=0.0, max_value=None, threshold=0.0)",
       axis |-> -1] }

\* "axis=-1" in act_signature or "axis=None" in act_signature
SignatureHasDefaultAxis(act) ==
    act.signature \in {"(x, axis=-1)", "(x, axis=None)"}

\* layer.output.shape of the output layers: batch axis None (0), two axes.
OutputShapes == {<<0, a, b>> : a \in 1..2, b \in 1..2}

\* The layers that produce the outputs: their class, activation, output shape.
OutputLayers ==
    [cls : {"Dense", "Conv", "Other"}, activation : Activations,
     output_shape : OutputShapes]

\* shape[axis] of Python: a negative index counts from the end.
ShapeAt(shape, axis) ==
    IF axis < 0 THEN shape[Len(shape) + 1 + axis] ELSE shape[axis + 1]

\* The axis the check takes for a layer, or NoAxis where it `continue`s.
NoAxis == 99
SoftmaxAxis(layer) ==
    IF layer.activation.is_layer THEN layer.activation.axis
    ELSE IF SignatureHasDefaultAxis(layer.activation) THEN -1
    ELSE NoAxis

\* _check_output_activation_softmax(output_layers): TRUE where it raises.
CheckRaises(layers) ==
    \E i \in DOMAIN layers :
        /\ layers[i].cls \in {"Dense", "Conv"}
        /\ SoftmaxAxis(layers[i]) # NoAxis
        /\ ShapeAt(layers[i].output_shape, SoftmaxAxis(layers[i])) = 1

\* The tail of Functional.__init__: validate_output_activation is popped
\* from kwargs, the graph is built, the output layers are checked.
CheckOutputActivation ==
    /\ smx # <<>>
    /\ smx.result = "pending"
    /\ smx' = [smx EXCEPT !.result =
                 IF smx.validate /\ CheckRaises(smx.layers)
                 THEN "ValueError" ELSE "constructed"]
    /\ UNCHANGED <<walkVars, storeVars, ctor, graphVars,
                   iop, rstore, rank, exec, lateVars>>

InitSoftmax ==
    /\ smx \in [layers : UNION {[1..n -> OutputLayers] : n \in 1..MaxOutputs},
                validate : BOOLEAN, result : {"pending"}]
    /\ WalkIdle /\ StoreIdle /\ CtorIdle /\ GraphIdle
    /\ IoIdle /\ StIdle /\ RankIdle /\ RunIdle /\ LateIdle

NextSoftmax == CheckOutputActivation

SpecSoftmax == InitSoftmax /\ [][NextSoftmax]_vars

\* An output layer that is a Dense or convolution layer and applies softmax
\* along an axis of size 1.
SoftmaxOverOne(layer) ==
    /\ layer.cls \in {"Dense", "Conv"}
    /\ layer.activation.softmax
    /\ ShapeAt(layer.output_shape, layer.activation.axis) = 1

\* C11: constructing the model raises ValueError exactly when the check is
\* on and some Dense or convolution output layer applies softmax along an
\* axis of output size 1; it does not raise when the size is 2 or more, when
\* the activation is not softmax, or when validate_output_activation=False.
C11_RaisesIffSoftmaxOverOne ==
    (smx # <<>> /\ smx.result # "pending") =>
        (smx.result = "ValueError" <=>
            /\ smx.validate
            /\ \E i \in DOMAIN smx.layers : SoftmaxOverOne(smx.layers[i]))

\* ---------------------------------------------------------------------------
\* save_model / load_model / save_weights_only / load_weights_only
\* (saving_lib.py): the archive, the stores and the temporary directory each
\* call opens, and what it leaves behind when it returns or raises.
\* ---------------------------------------------------------------------------

\* The number of calls made one after the other on the same files.
MaxOps == 2

_CONFIG_FILENAME == "config.json"
_METADATA_FILENAME == "metadata.json"
_VARS_FNAME_H5 == "model.weights.h5"
_VARS_FNAME_NPZ == "model.weights.npz"
_VARS_FNAME_JSON == "model.weights.json"

\* The file names given: an archive, a weights file, a name with neither
\* extension.
KerasPath == "m.keras"
WeightsPath == "m.weights.h5"
OtherPath == "m.h5"
EndsWithKeras(filepath) == filepath = KerasPath
EndsWithWeightsH5(filepath) == filepath = WeightsPath

\* str(root_path).replace(".weights.h5", ".weights.json")
ShardMapFilename(root_path) ==
    IF root_path = _VARS_FNAME_H5 THEN _VARS_FNAME_JSON
    ELSE IF root_path = WeightsPath THEN "m.weights.json"
    ELSE root_path

Contains(seq, x) == \E i \in DOMAIN seq : seq[i] = x

\* The points where an exception is raised from below: extractall/makedirs
\* in DiskIOStore.__init__, a trackable's save/load method during the walk.
Faults == {"none", "asset_store", "walk"}

IoArgs ==
    [op : {"save_model"}, filepath : {KerasPath, OtherPath},
     weights_format : {"h5", "npz", "tf"}, sharded : BOOLEAN, fault : Faults]
    \cup
    [op : {"load_model"}, filepath : {KerasPath, OtherPath},
     weights_format : {"h5"}, sharded : {FALSE}, fault : Faults]
    \cup
    [op : {"save_weights_only"}, filepath : {WeightsPath, OtherPath},
     weights_format : {"h5"}, sharded : BOOLEAN, fault : {"none", "walk"}]
    \cup
    [op : {"load_weights_only"},
     filepath : {WeightsPath, KerasPath, OtherPath},
     weights_format : {"h5"}, sharded : BOOLEAN, fault : {"none", "walk"}]

NoArgs ==
    [op |-> "none", filepath |-> OtherPath, weights_format |-> "h5",
     sharded |-> FALSE, fault |-> "none"]

\* The files: the archive m.keras (members in the order written), the
\* weights file m.weights.h5, and the shard-map JSON files on disk.
NoFiles ==
    [keras |-> FALSE, names |-> <<>>, weights |-> FALSE, maps |-> {}]

\* What one call holds: the archive handle, the weights store (its class,
\* its HDF5 or npz file handle), the asset store and its temporary directory.
NoResources ==
    [zf |-> "none", wstore |-> "none", wkind |-> "none", wmode |-> "none",
     wfile |-> "none", astore |-> "none", tmp_dir |-> "none",
     assets |-> FALSE]

IoStart ==
    [args |-> NoArgs, pc |-> "idle", result |-> "none", nops |-> 0,
     files |-> NoFiles, res |-> NoResources, calls |-> <<>>]

\* An exception leaves the function: a `with zipfile.ZipFile(...)` block
\* closes the archive on the way out (save_model, load_model).
Raise(s, exc) ==
    [s EXCEPT !.pc = "idle", !.result = exc,
              !.res.zf = IF s.args.op \in {"save_model", "load_model"}
                            /\ s.res.zf = "open"
                         THEN "closed" ELSE s.res.zf,
              !.calls = IF s.args.op \in {"save_model", "load_model"}
                           /\ s.res.zf = "open"
                        THEN Append(s.calls, "archive.close") ELSE s.calls]

\* A call is made with some arguments.
CallOp ==
    /\ iop # <<>>
    /\ iop.pc = "idle"
    /\ iop.nops < MaxOps
    /\ \E a \in IoArgs :
         iop' = [iop EXCEPT !.args = a, !.pc = "validate",
                            !.result = "running", !.nops = @ + 1,
                            !.res = NoResources, !.calls = <<>>]
    /\ UNCHANGED <<walkVars, storeVars, ctor, graphVars,
                   smx, rstore, rank, exec, lateVars>>

\* The checks on the arguments at the head of each function.
ValidateArgs(s) ==
    LET a == s.args
    IN CASE a.op = "save_model" ->
              IF ~EndsWithKeras(a.filepath) THEN Raise(s, "ValueError")
              ELSE IF a.weights_format # "h5" /\ a.sharded
              THEN Raise(s, "NotImplementedError")
              ELSE [s EXCEPT !.pc = "archive"]
         [] a.op = "load_model" ->
              IF ~EndsWithKeras(a.filepath) THEN Raise(s, "ValueError")
              ELSE [s EXCEPT !.pc = "archive"]
         [] a.op = "save_weights_only" ->
              IF ~EndsWithWeightsH5(a.filepath) THEN Raise(s, "ValueError")
              ELSE [s EXCEPT !.pc = "weights_store"]
         [] a.op = "load_weights_only" ->
              \* with neither extension no store is assigned and the
              \* call of _load_state fails on the unbound name
              IF EndsWithWeightsH5(a.filepath)
              THEN [s EXCEPT !.pc = "weights_store"]
              ELSE IF EndsWithKeras(a.filepath)
              THEN [s EXCEPT !.pc = "archive"]
              ELSE Raise(s, "UnboundLocalError")

Validate ==
    /\ iop # <<>>
    /\ iop.pc = "validate"
    /\ iop' = ValidateArgs(iop)
    /\ UNCHANGED <<walkVars, storeVars, ctor, graphVars,
                   smx, rstore, rank, exec, lateVars>>

\* zipfile.ZipFile(filepath, "w") followed by the metadata and the config
\* (save_model); ZipFile(filepath, "r") (load_model, load_weights_only).
OpenArchiveEffect(s) ==
    IF s.args.op = "save_model"
    THEN [s EXCEPT !.pc = "weights_store", !.res.zf = "open",
                   !.files.keras = TRUE,
                   !.files.names = <<_METADATA_FILENAME, _CONFIG_FILENAME>>]
    ELSE IF ~s.files.keras THEN Raise(s, "FileNotFoundError")
    ELSE [s EXCEPT !.pc = "weights_store", !.res.zf = "open"]

OpenArchive ==
    /\ iop # <<>>
    /\ iop.pc = "archive"
    /\ iop' = OpenArchiveEffect(iop)
    /\ UNCHANGED <<walkVars, storeVars, ctor, graphVars,
                   smx, rstore, rank, exec, lateVars>>

\* The class of weights store each function chooses, "unknown" where it
\* raises ValueError.
WeightsStoreKind(s) ==
    LET a == s.args
        names == s.files.names
    IN CASE a.op = "save_model" ->
              IF a.weights_format = "h5"
              THEN (IF a.sharded THEN "ShardedH5IOStore" ELSE "H5IOStore")
              ELSE IF a.weights_format = "npz" THEN "NpzIOStore"
              ELSE "unknown"
         [] a.op = "load_model" ->
              IF Contains(names, _VARS_FNAME_H5)
              THEN (IF Contains(names, _VARS_FNAME_JSON)
                    THEN "ShardedH5IOStore" ELSE "H5IOStore")
              ELSE IF Contains(names, _VARS_FNAME_NPZ) THEN "NpzIOStore"
              ELSE "unknown"
         [] a.op = "save_weights_only" ->
              IF a.sharded THEN "ShardedH5IOStore" ELSE "H5IOStore"
         [] a.op = "load_weights_only" ->
              IF EndsWithWeightsH5(a.filepath)
              THEN (IF a.sharded THEN "ShardedH5IOStore" ELSE "H5IOStore")
              ELSE IF Contains(names, _VARS_FNAME_JSON)
              THEN "ShardedH5IOStore" ELSE "H5IOStore"

IoMode(s) ==
    IF s.args.op \in {"save_model", "save_weights_only"} THEN "w" ELSE "r"

\* The root_path the weights store is given.
WeightsRootPath(s, kind) ==
    IF s.res.zf = "open"
    THEN (IF kind = "NpzIOStore" THEN _VARS_FNAME_NPZ ELSE _VARS_FNAME_H5)
    ELSE s.args.filepath

\* Whether the file a store reads is there.
CanOpen(s, root_path) ==
    IF s.res.zf = "open" THEN Contains(s.files.names, root_path)
    ELSE s.files.weights

\* __init__ of the three weights stores.
WeightsStoreInit(s, kind) ==
    LET mode == IoMode(s)
        root_path == WeightsRootPath(s, kind)
        opened == [s EXCEPT !.res.wstore = "open", !.res.wkind = kind,
                            !.res.wmode = mode,
                            !.calls = Append(@, "weights.init")]
        next == IF s.args.op \in {"save_model", "load_model"}
                THEN "asset_store" ELSE "walk"
    IN IF kind = "ShardedH5IOStore" /\ mode = "r"
          /\ ShardMapFilename(root_path) \notin s.files.maps
       THEN Raise(s, "FileNotFoundError")
       ELSE IF mode = "r" /\ ~CanOpen(s, root_path)
       THEN Raise(s, IF s.res.zf = "open" THEN "KeyError"
                     ELSE "FileNotFoundError")
       ELSE IF kind = "NpzIOStore" /\ mode = "w"
       THEN [opened EXCEPT !.pc = next]
       ELSE [opened EXCEPT !.pc = next, !.res.wfile = "open",
                           !.files.weights =
                               IF mode = "w" /\ s.res.zf # "open"
                               THEN TRUE ELSE @]

CreateWeightsStore ==
    /\ iop # <<>>
    /\ iop.pc = "weights_store"
    /\ iop' = IF WeightsStoreKind(iop) = "unknown"
              THEN Raise(iop, "ValueError")
              ELSE WeightsStoreInit(iop, WeightsStoreKind(iop))
    /\ UNCHANGED <<walkVars, storeVars, ctor, graphVars,
                   smx, rstore, rank, exec, lateVars>>

\* DiskIOStore.__init__ with an archive: the temporary directory is made,
\* then the archive is extracted into it (mode "r") or the working directory
\* is made (mode "w").
DiskIOStoreInit(s) ==
    LET made == [s EXCEPT !.res.tmp_dir = "exists"]
    IN IF s.args.fault = "asset_store" THEN Raise(made, "OSError")
       ELSE [made EXCEPT !.pc = "walk", !.res.astore = "open",
                         !.calls = Append(@, "assets.init")]

CreateAssetStore ==
    /\ iop # <<>>
    /\ iop.pc = "asset_store"
    /\ iop' = IF iop.args.op = "load_model" /\ ~(Len(iop.files.names) > 3)
              THEN [iop EXCEPT !.pc = "walk"]
              ELSE DiskIOStoreInit(iop)
    /\ UNCHANGED <<walkVars, storeVars, ctor, graphVars,
                   smx, rstore, rank, exec, lateVars>>

\* ShardedH5IOStore.close() and H5IOStore.close() and NpzIOStore.close():
\* what they write and which handles they close.
WeightsStoreClose(s) ==
    LET r == s.res
        root_path == WeightsRootPath(s, r.wkind)
        member == r.wmode = "w" /\ r.zf = "open"
    IN [s EXCEPT !.res.wstore = "closed",
                 !.res.wfile = "closed",
                 !.files.names = IF member THEN Append(@, root_path) ELSE @,
                 !.files.weights =
                     IF r.wmode = "w" /\ r.zf # "open" THEN TRUE ELSE @,
                 !.files.maps =
                     IF r.wkind = "ShardedH5IOStore" /\ r.wmode = "w"
                     THEN @ \cup {ShardMapFilename(root_path)} ELSE @,
                 !.calls = Append(@, "weights.close")]

\* A close() that zips the assets and leaves the temporary directory.
DiskIOStoreCloseKeepsTmp(s) ==
    [s EXCEPT !.res.astore = "closed",
              !.files.names = IF IoMode(s) = "w" /\ s.res.zf = "open"
                                 /\ s.res.assets
                              THEN Append(@, "assets/vocabulary.txt") ELSE @,
              !.calls = Append(@, "assets.close")]
\* DiskIOStore.close()
DiskIOStoreClose(s) ==
    [s EXCEPT !.res.astore = "closed",
              !.res.tmp_dir = IF @ = "exists" THEN "removed" ELSE @,
              !.files.names = IF IoMode(s) = "w" /\ s.res.zf = "open"
                                 /\ s.res.assets
                              THEN Append(@, "assets/vocabulary.txt") ELSE @,
              !.calls = Append(@, "assets.close")]

\* _save_state / _load_state over the whole model: the stores are used;
\* a sharded store may roll over to a new shard (make() closes the store and
\* opens a new file); a trackable may write assets; a trackable may raise.
WalkEffect(s, roll, assets) ==
    LET used == [s EXCEPT !.calls =
                    IF s.res.astore = "open"
                    THEN @ \o <<"weights.use", "assets.use">>
                    ELSE Append(@, "weights.use")]
        closed == WeightsStoreClose(used)
        rolled == IF roll /\ s.res.wkind = "ShardedH5IOStore"
                     /\ s.res.wmode = "w"
                  THEN [closed EXCEPT !.res.wstore = "open",
                                      !.res.wfile = "open",
                                      !.calls = Append(used.calls, "weights.use")]
                  ELSE used
        wrote == [rolled EXCEPT !.res.assets =
                     assets /\ s.res.astore = "open" /\ IoMode(s) = "w"]
    IN IF s.args.fault = "walk" THEN Raise(wrote, "Exception")
       ELSE [wrote EXCEPT !.pc = "close_weights"]

WalkState ==
    /\ iop # <<>>
    /\ iop.pc = "walk"
    /\ \E roll \in BOOLEAN, assets \in BOOLEAN :
         iop' = WalkEffect(iop, roll, assets)
    /\ UNCHANGED <<walkVars, storeVars, ctor, graphVars,
                   smx, rstore, rank, exec, lateVars>>

\* weights_store.close()
CloseWeights ==
    /\ iop # <<>>
    /\ iop.pc = "close_weights"
    /\ iop' = [WeightsStoreClose(iop) EXCEPT !.pc = "close_assets"]
    /\ UNCHANGED <<walkVars, storeVars, ctor, graphVars,
                   smx, rstore, rank, exec, lateVars>>

\* asset_store.close() where there is an asset store, then the end of the
\* function: the `with` block closes the archive (save_model, load_model),
\* load_weights_only closes the archive it opened.
CloseAssetsAndReturn ==
    /\ iop # <<>>
    /\ iop.pc = "close_assets"
    /\ LET s1 == IF iop.res.astore = "open" THEN DiskIOStoreClose(iop)
                 ELSE iop
       IN iop' = [s1 EXCEPT !.pc = "idle", !.result = "returned",
                     !.res.zf = IF @ = "open" THEN "closed" ELSE @,
                     !.calls = IF s1.res.zf = "open"
                               THEN Append(@, "archive.close") ELSE @]
    /\ UNCHANGED <<walkVars, storeVars, ctor, graphVars,
                   smx, rstore, rank, exec, lateVars>>

InitSaveLoad ==
    /\ iop = IoStart
    /\ WalkIdle /\ StoreIdle /\ CtorIdle /\ GraphIdle
    /\ SoftmaxIdle /\ StIdle /\ RankIdle /\ RunIdle /\ LateIdle

NextSaveLoad ==
    \/ CallOp
    \/ Validate
    \/ OpenArchive
    \/ CreateWeightsStore
    \/ CreateAssetStore
    \/ WalkState
    \/ CloseWeights
    \/ CloseAssetsAndReturn

SpecSaveLoad == InitSaveLoad /\ [][NextSaveLoad]_vars

\* What a finished call still holds open.
HeldOpen(r) ==
    {n \in {"archive", "weights_store", "weights_file", "asset_store",
            "tmp_dir"} :
        \/ n = "archive" /\ r.zf = "open"
        \/ n = "weights_store" /\ r.wstore = "open"
        \/ n = "weights_file" /\ r.wfile = "open"
        \/ n = "asset_store" /\ r.astore = "open"
        \/ n = "tmp_dir" /\ r.tmp_dir = "exists"}

IoFinished == iop # <<>> /\ iop.pc = "idle" /\ iop.result # "none"
IoRaised == IoFinished /\ iop.result # "returned"

\* C12: when save_model, load_model, save_weights_only or load_weights_only
\* ends with an exception (raised while a store is created or during the
\* walk of the model state), every store, file handle, archive handle and
\* temporary directory the call opened has been closed or removed.
C12_ExceptionReleasesAll ==
    IoRaised => HeldOpen(iop.res) = {}

\* Whether the function made the call `use` after the call `close`.
UsedAfterClose(calls, close, use) ==
    \E i \in DOMAIN calls, j \in DOMAIN calls :
        i < j /\ calls[i] = close /\ calls[j] = use
\* Whether every call `b` comes after a call `a`.
ClosedBefore(calls, a, b) ==
    \A j \in DOMAIN calls :
        calls[j] = b => \E i \in 1..(j - 1) : calls[i] = a

RejectedBySaveModel(a) ==
    \/ ~EndsWithKeras(a.filepath)
    \/ a.weights_format \notin {"h5", "npz"}
    \/ a.weights_format # "h5" /\ a.sharded

\* C14: a save_model call with a file name that does not end in .keras, with
\* an unknown weights_format, or with sharded=True and a weights_format other
\* than h5 never creates or writes the target archive (nor any other file).
C14_RejectedSaveWritesNothing ==
    [][(iop # <<>> /\ iop.args.op = "save_model"
        /\ RejectedBySaveModel(iop.args)) => iop'.files = iop.files]_vars

\* C16: after save_model(..., sharded=True) returned, the archive has the
\* members metadata.json, config.json, model.weights.h5 and the shard map
\* model.weights.json, and load_model would open its weights through
\* ShardedH5IOStore.
C16_ShardedArchiveHasMap ==
    (IoFinished /\ iop.result = "returned" /\ iop.args.op = "save_model"
     /\ iop.args.sharded) =>
        /\ \A n \in {_METADATA_FILENAME, _CONFIG_FILENAME, _VARS_FNAME_H5,
                     _VARS_FNAME_JSON} : Contains(iop.files.names, n)
        /\ WeightsStoreKind([iop EXCEPT !.args.op = "load_model"])
             = "ShardedH5IOStore"

\* C15: opening a ShardedH5IOStore for reading when the shard-map JSON file
\* is missing fails (FileNotFoundError) with no HDF5 file opened; opening it
\* for writing when the file is missing starts with an empty shard map; when
\* the file exists, its content is the shard map of the new store.
C15_OpenFollowsMapFile ==
    [][/\ (sphase = "none" /\ sphase' = "writing") =>
            /\ store'.var_shard_map =
                   (IF mapfile.exists THEN mapfile.map ELSE <<>>)
            /\ store'.h5.open
       /\ (sphase \in {"none", "written"} /\ sphase' = "reading") =>
            /\ mapfile.exists
            /\ store'.var_shard_map = mapfile.map
       /\ (sphase' = "failed" /\ sphase # "failed") =>
            /\ ~mapfile.exists
            /\ store' = store
            /\ ~store'.h5.open]_vars

\* A store was opened for reading where no shard-map file existed.
C15_Witness ==
    /\ sphase = "failed"
    /\ ~mapfile.exists
    /\ FileExists(RootPath)
    /\ ~store.h5.open

\* ---------------------------------------------------------------------------
\* Functional._adjust_input_rank (functional.py)
\* ---------------------------------------------------------------------------

\* The largest rank of the shapes and the largest number of model inputs.
MaxRank == 3
MaxInputs == 2

\* A dimension: 1, or 2 for every other size (None included: the code only
\* compares a dimension with 1).
Dims == 1..2
Shapes == UNION {[1..n -> Dims] : n \in 0..MaxRank}

\* ops.squeeze(x, axis=-1) and ops.expand_dims(x, axis=-1) on the shape.
Squeeze(shape) == SubSeq(shape, 1, Len(shape) - 1)
ExpandDimsFront(shape) == <<1>> \o shape
ExpandDims(shape) == Append(shape, 1)

\* The body of the loop for one input x with declared shape ref_shape: the
\* shape appended to `adjusted`, or the ValueError.
AdjustOne(x, ref_shape) ==
    LET x_rank == Len(x)
        ref_rank == Len(ref_shape)
    IN IF x_rank = ref_rank
       THEN [raised |-> FALSE, shape |-> x]
       ELSE IF x_rank = ref_rank + 1 /\ x[x_rank] = 1
       THEN [raised |-> FALSE, shape |-> Squeeze(x)]
       ELSE IF x_rank = ref_rank - 1 /\ ref_shape[ref_rank] = 1
       THEN [raised |-> FALSE, shape |-> ExpandDims(x)]
       ELSE [raised |-> TRUE, shape |-> x]

\* One turn of `for x, ref_shape in zip(flat_inputs, flat_ref_shapes)`.
AdjustInput ==
    /\ rank # <<>>
    /\ rank.status = "running"
    /\ rank.n < rank.inputs
    /\ \E x \in Shapes, ref_shape \in Shapes :
         LET a == AdjustOne(x, ref_shape)
         IN rank' = [rank EXCEPT
                       !.n = @ + 1, !.x = x, !.ref_shape = ref_shape,
                       !.adjusted = a.shape,
                       !.status = IF a.raised THEN "ValueError" ELSE @]
    /\ UNCHANGED <<walkVars, storeVars, ctor, graphVars,
                   smx, iop, rstore, exec, lateVars>>

\* `return adjusted` after the last input.
ReturnAdjusted ==
    /\ rank # <<>>
    /\ rank.status = "running"
    /\ rank.n = rank.inputs
    /\ rank' = [rank EXCEPT !.status = "returned"]
    /\ UNCHANGED <<walkVars, storeVars, ctor, graphVars,
                   smx, iop, rstore, exec, lateVars>>

InitRank ==
    /\ rank \in [inputs : 1..MaxInputs, n : {0}, x : {<<>>},
                 ref_shape : {<<>>}, adjusted : {<<>>}, status : {"running"}]
    /\ WalkIdle /\ StoreIdle /\ CtorIdle /\ GraphIdle
    /\ SoftmaxIdle /\ IoIdle /\ StIdle /\ RunIdle /\ LateIdle

NextRank == AdjustInput \/ ReturnAdjusted

SpecRank == InitRank /\ [][NextRank]_vars

\* The three cases in which an input is accepted.
SameRank(x, ref_shape) == Len(x) = Len(ref_shape)
OneMoreLastOne(x, ref_shape) ==
    Len(x) = Len(ref_shape) + 1 /\ x[Len(x)] = 1
OneLessDeclaredLastOne(x, ref_shape) ==
    Len(x) = Len(ref_shape) - 1 /\ ref_shape[Len(ref_shape)] = 1

\* C18: an input whose rank is the declared rank is returned unchanged; with
\* one more axis and a last dimension of 1 its last axis is squeezed; with
\* one axis less and a declared last dimension of 1 a trailing axis is
\* added; every other mismatch raises ValueError; so an input that is
\* returned has the declared rank.
C18_AdjustedToDeclaredRank ==
    (rank # <<>> /\ rank.n > 0) =>
        LET x == rank.x
            ref_shape == rank.ref_shape
        IN /\ (rank.status = "ValueError") <=>
                  ~(\/ SameRank(x, ref_shape)
                    \/ OneMoreLastOne(x, ref_shape)
                    \/ OneLessDeclaredLastOne(x, ref_shape))
           /\ rank.status # "ValueError" =>
                  /\ Len(rank.adjusted) = Len(ref_shape)
                  /\ SameRank(x, ref_shape) => rank.adjusted = x
                  /\ OneMoreLastOne(x, ref_shape) =>
                        x = Append(rank.adjusted, 1)
                  /\ OneLessDeclaredLastOne(x, ref_shape) =>
                        rank.adjusted = Append(x, 1)

\* An input with one axis less than declared got a trailing axis, and the
\* inputs were returned.
C18_Witness ==
    /\ rank # <<>> /\ rank.status = "returned"
    /\ Len(rank.x) = 2 /\ Len(rank.ref_shape) = 3
    /\ rank.x[1] = 2
    /\ rank.adjusted = Append(rank.x, 1)

\* ---------------------------------------------------------------------------
\* H5IOStore, NpzIOStore and DiskIOStore: make() in a write session, get() in
\* a read session on what the write session left (saving_lib.py)
\* ---------------------------------------------------------------------------

\* The paths of the trackables: the root "", a child, a grandchild, and a
\* path that is never made.
MadePaths == {"", "a", "a/b"}
AskedPaths == MadePaths \cup {"c"}

\* file_utils.join / HDF5 group nesting: the proper ancestors of a path
\* below the root.
ParentsOf(path) == IF path = "a/b" THEN {"a"} ELSE {}

\* `path in self.h5_file`, file_utils.exists(path): the path was made or is
\* an ancestor of a path that was made.
PathExists(made, path) ==
    path \in made \/ \E q \in made : path \in ParentsOf(q)

StoreKinds == {"H5IOStore", "NpzIOStore", "DiskIOStore"}

\* What get() gives: the variables stored ("vars"), an empty mapping
\* ("empty": {} or a group without datasets), a directory name ("dir"),
\* None, or the exception raised.
H5IOStoreGet(s, path) ==
    IF path = ""
    THEN \* return self.h5_file["vars"]
         IF "" \in s.made
         THEN (IF "" \in s.filled THEN "vars" ELSE "empty")
         ELSE "KeyError"
    ELSE IF PathExists(s.made, path) /\ path \in s.made
    THEN (IF path \in s.filled THEN "vars" ELSE "empty")
    ELSE "empty"

NpzIOStoreGet(s, path) ==
    IF path = ""
    THEN IF "" \in s.made
         THEN (IF "" \in s.filled THEN "vars" ELSE "empty")
         ELSE "empty"
    ELSE IF path \in s.made
    THEN (IF path \in s.filled THEN "vars" ELSE "empty")
    ELSE "empty"

DiskIOStoreGet(s, path) ==
    IF path = "" THEN "dir"
    ELSE IF PathExists(s.made, path) THEN "dir"
    ELSE "None"

\* store.make(path), followed by the trackable writing variables or assets
\* into what it returned (fill) or writing nothing.
MakePath ==
    /\ rstore # <<>>
    /\ rstore.mode = "w"
    /\ \E path \in MadePaths, fill \in BOOLEAN :
         \* create_group raises ValueError on a group that exists
         /\ ~PathExists(rstore.made, path)
         /\ rstore' = [rstore EXCEPT
                         !.made = @ \cup {path},
                         !.filled = IF fill THEN @ \cup {path} ELSE @]
    /\ UNCHANGED <<walkVars, storeVars, ctor, graphVars,
                   smx, iop, rank, exec, lateVars>>

\* store.close() of the write session, then a store of the same class is
\* opened on the same file with mode "r".
Reopen ==
    /\ rstore # <<>>
    /\ rstore.mode = "w"
    /\ rstore' = [rstore EXCEPT !.mode = "r"]
    /\ UNCHANGED <<walkVars, storeVars, ctor, graphVars,
                   smx, iop, rank, exec, lateVars>>

\* store.get(path) in the read session.
GetPath ==
    /\ rstore # <<>>
    /\ rstore.mode = "r"
    /\ \E path \in AskedPaths :
         rstore' = [rstore EXCEPT
                      !.path = path,
                      !.result =
                         CASE rstore.kind = "H5IOStore" ->
                                  H5IOStoreGet(rstore, path)
                           [] rstore.kind = "NpzIOStore" ->
                                  NpzIOStoreGet(rstore, path)
                           [] rstore.kind = "DiskIOStore" ->
                                  DiskIOStoreGet(rstore, path)]
    /\ UNCHANGED <<walkVars, storeVars, ctor, graphVars,
                   smx, iop, rank, exec, lateVars>>

InitGet ==
    /\ rstore \in [kind : StoreKinds, mode : {"w"}, made : {{}},
                   filled : {{}}, path : {""}, result : {"none"}]
    /\ WalkIdle /\ StoreIdle /\ CtorIdle /\ GraphIdle
    /\ SoftmaxIdle /\ IoIdle /\ RankIdle /\ RunIdle /\ LateIdle

NextGet == MakePath \/ Reopen \/ GetPath

SpecGet == InitGet /\ [][NextGet]_vars

\* C17: in a read session get(path) of an H5IOStore or NpzIOStore on a path
\* under which nothing was stored gives an empty mapping and does not
\* raise, for the root "" as for every other path; get(path) of a
\* DiskIOStore gives None for a path other than the root that does not
\* exist.
C17_GetOfNothingIsEmpty ==
    (rstore # <<>> /\ rstore.result # "none") =>
        /\ rstore.kind \in {"H5IOStore", "NpzIOStore"} =>
              /\ rstore.result \in {"vars", "empty"}
              /\ rstore.path \notin rstore.filled => rstore.result = "empty"
        /\ (rstore.kind = "DiskIOStore" /\ rstore.path # ""
            /\ ~PathExists(rstore.made, rstore.path)) =>
              rstore.result = "None"

\* ---------------------------------------------------------------------------
\* Functional.call: the graph is run node by node (functional.py, call and
\* operation_fn; Function._run_through_graph)
\* ---------------------------------------------------------------------------

\* The value of a tensor during a call: the model input it was given as, or
\* the node whose operation returned it; NotComputed before that.
NotComputed == <<"", -1>>
InputValue(i) == <<"input", i>>
OutputOf(key) == key

\* The nodes of the model in the order of the run: the deepest first, those
\* of one depth in the order in which their calls were made.
NodeComesBeforeShallowFirst(g, depth, a, b) ==
    \/ depth[a] < depth[b]
    \/ /\ depth[a] = depth[b]
       /\ NodeAt(g, a).outputs[1] < NodeAt(g, b).outputs[1]
NodeComesBefore(g, depth, a, b) ==
    \/ depth[a] > depth[b]
    \/ /\ depth[a] = depth[b]
       /\ NodeAt(g, a).outputs[1] < NodeAt(g, b).outputs[1]

RECURSIVE SortNodes(_, _, _)
SortNodes(g, depth, S) ==
    IF S = {} THEN <<>>
    ELSE LET first == CHOOSE a \in S :
                         \A b \in S \ {a} : NodeComesBefore(g, depth, a, b)
         IN  <<first>> \o SortNodes(g, depth, S \ {first})

NodesByDepth(g, nodes) ==
    SortNodes(g, [k \in nodes |-> NodeDepth(g, nodes, k)], nodes)

\* operation._call_has_training_arg: the call of layer A has a `training`
\* argument, the call of layer B has none.
CallHasTrainingArg(operation) == operation = "A"

\* operation_fn(operation, training): the keyword `training` the operation
\* is called with, "absent" when kwargs is left as gathered.
TrainingAlways(call_has_training_arg, training) == training
TrainingKwarg(call_has_training_arg, training) ==
    IF call_has_training_arg /\ training # "None" THEN training ELSE "absent"

\* unpack_singleton
unpack_singleton(x) == IF Len(x) = 1 THEN x[1] ELSE x

NoRun ==
    [status |-> "idle", training |-> "None",
     order |-> <<>>, i |-> 0, tensor_dict |-> <<>>, calls |-> <<>>,
     returned |-> <<>>]

\* model(inputs, training=...): the inputs are standardized and entered in
\* the table of computed tensors.
StartCall ==
    /\ exec # <<>>
    /\ fmodel.built
    /\ exec.status = "idle"
    /\ \E training \in {"None", "True", "False"} :
         exec' = [exec EXCEPT
                    !.status = "running",
                    !.training = training,
                    !.order = NodesByDepth(Graph, fmodel.nodes),
                    !.i = 1,
                    !.tensor_dict =
                        [t \in DOMAIN tensors |->
                            IF \E j \in DOMAIN fmodel.inputs : fmodel.inputs[j] = t
                            THEN InputValue(CHOOSE j \in DOMAIN fmodel.inputs :
                                               fmodel.inputs[j] = t)
                            ELSE NotComputed]]
    /\ UNCHANGED <<graphVars, walkVars, storeVars, ctor,
                   smx, iop, rstore, rank, lateVars>>

\* One node of the run: an input node is passed over, as is a node with an
\* argument that was not computed; otherwise the operation is called through
\* operation_fn and what it returns is recorded for the node's outputs.
RunNode ==
    /\ exec # <<>>
    /\ exec.status = "running"
    /\ exec.i <= Len(exec.order)
    /\ LET key == exec.order[exec.i]
           node == NodeAt(Graph, key)
           ready == \A a \in DOMAIN node.args :
                       exec.tensor_dict[node.args[a]] # NotComputed
       IN IF IsInputNode(node) \/ ~ready
          THEN exec' = [exec EXCEPT !.i = @ + 1]
          ELSE exec' = [exec EXCEPT
                          !.i = @ + 1,
                          !.calls = Append(@,
                              [node |-> key,
                               args |-> [a \in DOMAIN node.args |->
                                           exec.tensor_dict[node.args[a]]],
                               training |-> TrainingKwarg(
                                   CallHasTrainingArg(key[1]), exec.training)]),
                          !.tensor_dict =
                              [t \in DOMAIN @ |->
                                  IF t \in Range(node.outputs)
                                  THEN OutputOf(key) ELSE @[t]]]
    /\ UNCHANGED <<graphVars, walkVars, storeVars, ctor,
                   smx, iop, rstore, rank, lateVars>>

\* After the last node: the values of the declared outputs are read off and
\* returned through unpack_singleton.
ReturnOutputs ==
    /\ exec # <<>>
    /\ exec.status = "running"
    /\ exec.i > Len(exec.order)
    /\ exec' = [exec EXCEPT
                  !.status = "returned",
                  !.returned = unpack_singleton(
                      [j \in DOMAIN fmodel.outputs |->
                          exec.tensor_dict[fmodel.outputs[j]]])]
    /\ UNCHANGED <<graphVars, walkVars, storeVars, ctor,
                   smx, iop, rstore, rank, lateVars>>

InitCall ==
    /\ ops = FirstOps /\ tensors = FirstTensors
    /\ fmodel = NoModel /\ config = NoConfig /\ rp = NoReplay /\ cl = NoClone
    /\ exec = NoRun
    /\ WalkIdle /\ StoreIdle /\ CtorIdle
    /\ SoftmaxIdle /\ IoIdle /\ StIdle /\ RankIdle /\ LateIdle

NextCall ==
    \/ \E operation \in {"A", "B"} : \E t \in 1..Len(tensors) : LayerCall(operation, t)
    \/ MakeModel
    \/ StartCall
    \/ RunNode
    \/ ReturnOutputs

SpecCall == InitCall /\ [][NextCall]_vars

\* The nodes of the model that are not input nodes, and the nodes called.
OperationNodes == {k \in fmodel.nodes : ~IsInputNode(NodeAt(Graph, k))}
CalledNodes == {exec.calls[i].node : i \in DOMAIN exec.calls}

\* The value recorded for a tensor when the node that makes it was called.
RecordedFor(t) ==
    IF \E j \in DOMAIN fmodel.inputs : fmodel.inputs[j] = t
    THEN InputValue(CHOOSE j \in DOMAIN fmodel.inputs : fmodel.inputs[j] = t)
    ELSE IF TensorNodeKey(Graph, t) \in CalledNodes
    THEN OutputOf(TensorNodeKey(Graph, t))
    ELSE NotComputed

\* C19: a call of the model invokes the operation of each node of the graph
\* exactly once, a node only after the nodes that produce its arguments, and
\* returns the values recorded for the declared outputs.
C19_EachNodeOnceAfterProducers ==
    /\ \A i \in DOMAIN exec.calls :
          /\ \A j \in DOMAIN exec.calls : exec.calls[j].node = exec.calls[i].node => j = i
          /\ exec.calls[i].node \in OperationNodes
          /\ \A a \in DOMAIN NodeAt(Graph, exec.calls[i].node).args :
                LET t == NodeAt(Graph, exec.calls[i].node).args[a]
                IN \/ \E j \in DOMAIN fmodel.inputs : fmodel.inputs[j] = t
                   \/ \E j \in 1..(i - 1) :
                         exec.calls[j].node = TensorNodeKey(Graph, t)
    /\ exec.status = "returned" =>
          /\ CalledNodes = OperationNodes
          /\ \A j \in DOMAIN fmodel.outputs :
                /\ RecordedFor(fmodel.outputs[j]) # NotComputed
                /\ IF Len(fmodel.outputs) = 1
                   THEN exec.returned = RecordedFor(fmodel.outputs[j])
                   ELSE exec.returned[j] = RecordedFor(fmodel.outputs[j])

\* A model with two outputs and at least three layer calls was run.
C19_Witness ==
    /\ exec.status = "returned"
    /\ Len(fmodel.outputs) = 2
    /\ Len(exec.calls) >= 3

\* C20: an operation is called with the keyword training=t exactly when its
\* call has a training argument and t is not None; its other arguments are
\* the values gathered for the node's argument tensors.
C20_TrainingOnlyWhereAccepted ==
    \A i \in DOMAIN exec.calls :
        LET c == exec.calls[i]
            node == NodeAt(Graph, c.node)
        IN /\ IF CallHasTrainingArg(c.node[1]) /\ exec.training # "None"
              THEN c.training = exec.training
              ELSE c.training = "absent"
           /\ c.args = [a \in DOMAIN node.args |-> RecordedFor(node.args[a])]

\* A run with training=True called layer A, which takes the argument, and
\* layer B, which does not.
C20_Witness ==
    /\ exec.status = "returned"
    /\ exec.training = "True"
    /\ \E i \in DOMAIN exec.calls :
          exec.calls[i].node[1] = "A" /\ exec.calls[i].training = "True"
    /\ \E i \in DOMAIN exec.calls :
          exec.calls[i].node[1] = "B" /\ exec.calls[i].training = "absent"

\* The content of the shard files of the write session: the members written
\* to the archive or the files on disk named in shard_list, and the file
\* that is open.
SessionShards ==
    (IF scfg.archive
     THEN {zip[k].groups : k \in 1..Len(zip)}
     ELSE {disk[store.shard_list[k]] : k \in 1..Len(store.shard_list)})
    \cup {store.h5.groups}

\* C21: make() rolls over to a new file at the call that would push the
\* current shard past max_size, so no shard file of a write session holds
\* datasets of more than max_size bytes in total.
C21_NoShardAboveMaxSize ==
    sphase \in {"writing", "written"} =>
        \A groups \in SessionShards : ShardSize(groups) <= store.max_size

\* The groups held by the physical file `filename` of the write session: the
\* file on disk, or what the archive gives under that member name (the open
\* shard is still in memory until it is closed).
ShardContent(filename) ==
    IF ~scfg.archive
    THEN (IF filename \in DOMAIN disk THEN disk[filename] ELSE EmptyH5)
    ELSE IF sphase = "writing" /\ filename = store.root_path
            /\ ~ZipHas(filename)
    THEN store.h5.groups
    ELSE IF ZipHas(filename) THEN ZipRead(filename)
    ELSE EmptyH5

\* Whether the shard map leads from the group made for `path` to a file that
\* holds the group, either in the archive or in the shard still open.
MapLocates(path) ==
    /\ GroupName(path) \in DOMAIN store.var_shard_map
    /\ LET filename == store.var_shard_map[GroupName(path)]
       IN \/ path \in DOMAIN ShardContent(filename)
          \/ /\ sphase = "writing" /\ filename = store.root_path
             /\ path \in DOMAIN store.h5.groups

\* C22: throughout a write session the shard map maps the name of every
\* group made to the physical file that holds the group (so a rollover
\* leaves the entries of earlier shards right), and the JSON index written
\* by close() is this map; on disk and in an archive.
C22_MapLocatesEveryGroup ==
    /\ sphase \in {"writing", "written"} =>
          \A k \in 1..Len(written) :
              ~written[k].error => MapLocates(written[k].path)
    /\ sphase = "written" =>
          mapfile = [exists |-> TRUE, map |-> store.var_shard_map]

\* The names under which the write session has put its shards so far: the
\* members written to the archive, or the files named in shard_list; the
\* open shard will be put under root_path.
ShardNames ==
    IF scfg.archive THEN [k \in 1..Len(zip) |-> zip[k].name]
    ELSE store.shard_list

\* C29: every shard a write session opens after a rollover has a file name
\* that no earlier shard of the session has, on disk and in an archive, so
\* that no earlier shard is overwritten.
C29_ShardNamesDistinct ==
    sphase \in {"writing", "written"} =>
        /\ \A i \in DOMAIN ShardNames, j \in DOMAIN ShardNames :
              ShardNames[i] = ShardNames[j] => i = j
        /\ sphase = "writing" =>
              \A i \in DOMAIN ShardNames : ShardNames[i] # store.root_path

\* C23: in the config made by get_config every kept node of an operation
\* stands at its rank among the operation's kept nodes, and every tensor
\* reference of the config (input_layers, output_layers, the arguments of
\* each kept node) names its producer node by that rank, the index the node
\* has once only the kept nodes are replayed.
C23_ReferencesAreRekeyed ==
    (fmodel.built /\ config.format = "current") =>
        /\ config.input_layers =
              [i \in DOMAIN fmodel.inputs |-> Reindexed(tensors[fmodel.inputs[i]])]
        /\ config.output_layers =
              [i \in DOMAIN fmodel.outputs |-> Reindexed(tensors[fmodel.outputs[i]])]
        /\ \A i \in DOMAIN fmodel.operations :
              LET operation == fmodel.operations[i]
                  calls == {k \in KeptNodes(operation) :
                               ~IsInputNode(NodeAt(Graph, k))}
                  base == Cardinality(KeptNodes(operation) \ calls)
              IN /\ config.layers[i].name = operation
                 /\ Len(config.layers[i].inbound_nodes) = Cardinality(calls)
                 /\ \A k \in calls :
                       config.layers[i].inbound_nodes[
                           node_reindexing_map(fmodel, k) - base + 1]
                         = [a \in DOMAIN NodeAt(Graph, k).args |->
                              Reindexed(tensors[NodeAt(Graph, k).args[a]])]

(***************************************************************************)
(*        NAMES OF CONTAINER ELEMENTS (_save/_load_container_state)          *)
(***************************************************************************)

\* The longest container explored.
MaxElems == 3

\* The classes of the trackable elements; a class name is any identifier, so
\* `class Dense_1(Layer)` is one.
ElemClasses == {"Dense", "Dense_1", "Functional"}

\* naming.to_snake_case(trackable.__class__.__name__) as a token sequence:
\* the words are lower-cased and joined with "_"; an underscore already in
\* the class name stays where it is.
class_to_snake_case(cls) ==
    CASE cls = "Dense" -> <<"dense">>
      [] cls = "Dense_1" -> <<"dense", "_", "1">>
      [] OTHER -> <<"functional">>

\* The containers handed to _save_container_state: lists of trackables of
\* these classes and of values that are not trackables.
ContainerInputs ==
    UNION { [1..n -> ElemClasses \cup {NoObj}] : n \in 0..MaxElems }

InitNames ==
    \* used_names = {}
    /\ cnt \in { [elems |-> c, j |-> 1, used |-> <<>>, names |-> <<>>] :
                    c \in ContainerInputs }
    /\ FlattenIdle /\ FitIdle
    /\ WalkIdle /\ StoreIdle /\ CtorIdle /\ GraphIdle /\ MoreIdle

\* One iteration of `for trackable in container`: a trackable gets its path
\* component from used_names, any other value is passed over.
NameElement ==
    /\ cnt # <<>> /\ cnt.j <= Len(cnt.elems)
    /\ LET e == cnt.elems[cnt.j]
       IN IF e # NoObj
          THEN LET name == class_to_snake_case(e)
               IN cnt' = [cnt EXCEPT
                     !.j = @ + 1,
                     !.used = Append(@, name),
                     !.names = Append(@, [elem |-> cnt.j,
                                          name |-> ElementName(cnt.used, name)])]
          ELSE cnt' = [cnt EXCEPT !.j = @ + 1]
    /\ UNCHANGED <<flat, fit>>
    /\ UNCHANGED <<walkVars, storeVars, ctor, graphVars, moreVars>>

NextNames == NameElement

SpecNames == InitNames /\ [][NextNames]_vars

\* C24: within one container the path components synthesized for the
\* trackable elements are pairwise distinct.
C24_ContainerNamesDistinct ==
    cnt # <<>> =>
        \A a, b \in 1..Len(cnt.names) :
            a # b => cnt.names[a].name # cnt.names[b].name

\* The rule by which the names are given: the first element of a class gets
\* the snake-case class name, the k-th further one that name suffixed _k, and
\* a value that is not a trackable gets no name.
NamesFollowRule ==
    cnt # <<>> =>
        /\ \A a \in 1..Len(cnt.names) :
             LET i == cnt.names[a].elem
                 name == class_to_snake_case(cnt.elems[i])
                 k == Cardinality({h \in 1..(i - 1) : cnt.elems[h] = cnt.elems[i]})
             IN /\ cnt.elems[i] # NoObj
                /\ cnt.names[a].name = IF k = 0 THEN name ELSE Suffixed(name, k)
        /\ Len(cnt.names) =
             Cardinality({i \in 1..(cnt.j - 1) : cnt.elems[i] # NoObj})

(***************************************************************************)
(*                     TERMINATION OF THE STATE WALKER                      *)
(***************************************************************************)

\* The walk under the scheduling of a sequential program: the step the
\* recursion is at is eventually taken.
SpecWalkFair == SpecWalk /\ WF_vars(NextWalk)

\* The frames of _save_state / _load_state that are inside the loop over the
\* children of `o`.
WalkFramesOf(o) ==
    {k \in 1..Len(stack) : stack[k].kind = "walk" /\ stack[k].obj = o}

\* The pass has returned or has raised.
WalkOver == wstatus \in {"done", "raised"}

\* C26: _save_state and _load_state started with an empty visited set
\* terminate on every finite object graph, cycles included: a trackable whose
\* children are being walked is already marked visited, so no trackable is
\* walked twice, neither at once nor one time after the other, and the pass
\* comes to its end.
C26_WalkTerminates ==
    /\ [](\A o \in Objs :
            /\ WalkFramesOf(o) # {} => o \in visited
            /\ Cardinality(WalkFramesOf(o)) <= 1
            /\ CallCount("save_own_variables", o)
                 + CallCount("load_own_variables", o) <= 1)
    /\ <>WalkOver

\* A pass that came to its end on a graph with a cycle model -> l1 -> l2 ->
\* model in which l2 is also an element of a container of the model.
C26_Witness ==
    /\ wstatus = "done"
    /\ attrs["model"].child = "l1"
    /\ attrs["l1"].child = "l2"
    /\ attrs["l2"].child = "model"
    /\ attrs["model"].items = <<"l2", NoObj, "model">>
    /\ visited = Objs

(***************************************************************************)
(*               A SAVE PASS FOLLOWED BY A LOAD PASS                         *)
(***************************************************************************)

\* save_model / save_weights_only has walked the model.
InitRoundTrip == InitWalk /\ wcfg.mode = "save"

\* load_model / load_weights_only walks the same object graph:
\* _load_state(model, ..., inner_path="", visited_trackables=set()). The
\* archive read is the one written, so it has an asset store iff one was
\* written.
LoadAfterSave ==
    /\ wstatus = "done" /\ wcfg.mode = "save"
    /\ \E c \in WalkConfigs :
         /\ c.mode = "load" /\ c.assets = wcfg.assets
         /\ (c.failing = NoObj => c.failwhat = "vars")
         /\ (c.failwhat = "assets" => c.assets)
         /\ wcfg' = c
    /\ stack' = <<EnterFrame("model", <<>>)>>
    /\ visited' = {}
    /\ wstatus' = "running"
    /\ UNCHANGED <<attrs, log>>
    /\ UNCHANGED <<storeVars, ctor, graphVars, moreVars, lateVars>>

NextRoundTrip ==
    \/ SaveEnter
    \/ LoadEnter
    \/ WalkChild
    \/ ContainerElem
    \/ WalkReturn
    \/ LoadAfterSave

SpecRoundTrip == InitRoundTrip /\ [][NextRoundTrip]_vars

\* The (trackable, path) pairs of the calls `name` of the log, in order:
\* save_own_variables is called with weights_store.make(inner_path),
\* load_own_variables with weights_store.get(inner_path).
RECURSIVE StoreSequence(_, _)
StoreSequence(name, n) ==
    IF n = 0 THEN <<>>
    ELSE IF log[n].call = name
         THEN Append(StoreSequence(name, n - 1), <<log[n].obj, log[n].path>>)
         ELSE StoreSequence(name, n - 1)

MakeSequence == StoreSequence("save_own_variables", Len(log))
GetSequence == StoreSequence("load_own_variables", Len(log))

\* C28: for one object graph the (trackable, path) pairs for which
\* _load_state calls weights_store.get are, in order, those for which
\* _save_state called weights_store.make: while the load runs they are the
\* first of them, and when it has returned they are all of them.
C28_GetFollowsMake ==
    wcfg.mode = "load" =>
        /\ Len(GetSequence) <= Len(MakeSequence)
        /\ GetSequence = SubSeq(MakeSequence, 1, Len(GetSequence))
        /\ wstatus = "done" => GetSequence = MakeSequence

\* A finished load of a graph with a shared trackable, a cycle and a
\* container holding two layers of one class: three get calls were made, the
\* last of them under a synthesized container name.
C28_Witness ==
    /\ wcfg.mode = "load" /\ wstatus = "done"
    /\ attrs["model"].items = <<"l1", "l2">>
    /\ attrs["model"].child = "l2"
    /\ attrs["l2"].child = "model"
    /\ Len(GetSequence) = 3
    /\ GetSequence[3] = <<"l1", << <<"items">>, <<"dense">> >> >>

(***************************************************************************)
(*                 PROPERTIES OF THE REPLAY OF QUEUED CALLS                 *)
(***************************************************************************)

\* The calls of layer `n` replayed so far (an InputLayer owns the node made
\* when it was created, which is not a replayed call).
ReplayedCalls(n) ==
    IF LayerData(n).class_name = "InputLayer"
    THEN Tail(rp.created[n]) ELSE rp.created[n]

\* The calls of layer `n` are replayed once each in the order of its
\* inbound_nodes list: the k-th node made is the call of the k-th entry, and
\* what is still queued is the rest of the list.
ReplayedInListOrder(n) ==
    LET inbound == LayerData(n).inbound_nodes
        done == Len(ReplayedCalls(n))
    IN  /\ done <= Len(inbound)
        /\ rp.unprocessed[n] = SubSeq(inbound, done + 1, Len(inbound))
        /\ \A k \in 1..done :
             /\ Len(ReplayedCalls(n)[k].args) = Len(inbound[k])
             /\ \A i \in DOMAIN inbound[k] :
                  ReplayedCalls(n)[k].args[i] =
                      KerasHistory(inbound[k][i].operation,
                                   inbound[k][i].node_index,
                                   inbound[k][i].tensor_index)

\* C25: in functional_from_config, on a config whose calls can all be
\* replayed in some order, every queued call is replayed successfully exactly
\* once and the calls of one layer are replayed in the order of its
\* inbound_nodes list, deferred ones included: the replay does not end with
\* an error while calls are queued, and it ends with none queued.
C25_QueuedCallsReplayedOnceInOrder ==
    (rp.phase # "idle" /\ Replayable) =>
        /\ rp.phase # "error" => \A n \in LayerNames : ReplayedInListOrder(n)
        /\ rp.phase = "error" => \A n \in LayerNames : rp.unprocessed[n] = <<>>
        /\ rp.phase \in {"replayed", "built"} =>
              \A n \in LayerNames : rp.unprocessed[n] = <<>>

(***************************************************************************)
(*                     Model._fit AND ITS CALLBACKS                         *)
(***************************************************************************)

\* The largest nb_epoch, number of training samples and batch_size explored.
MaxEpochs == 2
MaxSamples == 3
MaxBatchSize == 2

\* int(np.ceil(size / float(batch_size)))
CeilDiv(size, batch_size) ==
    IF size % batch_size = 0 THEN size \div batch_size
    ELSE (size \div batch_size) + 1

Min(a, b) == IF a <= b THEN a ELSE b

\* make_batches(size, batch_size): the (start, end) pairs of the batches.
make_batches(size, batch_size) ==
    [i \in 1..CeilDiv(size, batch_size) |->
        <<(i - 1) * batch_size, Min(size, i * batch_size)>>]

\* A call made on the CallbackList; `index` is the epoch or the batch index
\* (0 for on_train_begin and on_train_end), `stop` the value of
\* model.stop_training when the call has returned.
Callback(name, index, stop) == [name |-> name, index |-> index, stop |-> stop]

\* _fit(f, ins, batch_size=..., nb_epoch=...) with len(ins[0]) = nb_sample,
\* before its first callback.
InitFit ==
    /\ fit \in { [nb_epoch |-> e, nb_sample |-> s, batch_size |-> b,
                  pc |-> "train_begin", epoch |-> 0, batch_index |-> 0,
                  batches |-> <<>>, epoch_logs |-> FALSE,
                  stop_training |-> FALSE, calls |-> <<>>] :
                    e \in 0..MaxEpochs, s \in 0..MaxSamples,
                    b \in 1..MaxBatchSize }
    /\ NamesIdle /\ FlattenIdle
    /\ WalkIdle /\ StoreIdle /\ CtorIdle /\ GraphIdle /\ MoreIdle

\* The test of `for epoch in range(nb_epoch)` for the epoch `epoch`.
NextEpochOrEnd(epoch, nb_epoch) ==
    IF epoch < nb_epoch THEN "epoch_begin" ELSE "train_end"

\* callbacks.on_train_begin(); self.stop_training = False
TrainBegin ==
    /\ fit # <<>> /\ fit.pc = "train_begin"
    /\ fit' = [fit EXCEPT
                 !.calls = Append(@, Callback("on_train_begin", 0, FALSE)),
                 !.stop_training = FALSE,
                 !.epoch = 0,
                 !.pc = NextEpochOrEnd(0, fit.nb_epoch)]
    /\ UNCHANGED <<cnt, flat>>
    /\ UNCHANGED <<walkVars, storeVars, ctor, graphVars, moreVars>>

\* callbacks.on_epoch_begin(epoch); batches = make_batches(...)
EpochBegin ==
    /\ fit # <<>> /\ fit.pc = "epoch_begin"
    /\ fit' = [fit EXCEPT
                 !.calls = Append(@, Callback("on_epoch_begin", fit.epoch,
                                              fit.stop_training)),
                 !.batches = make_batches(fit.nb_sample, fit.batch_size),
                 !.batch_index = 0,
                 !.pc = "batch"]
    /\ UNCHANGED <<cnt, flat>>
    /\ UNCHANGED <<walkVars, storeVars, ctor, graphVars, moreVars>>

\* One turn of `for batch_index, (batch_start, batch_end) in
\* enumerate(batches)`: on_batch_begin, f(ins_batch), on_batch_end, and
\* `epoch_logs = {}`. A callback may set model.stop_training.
Batch ==
    /\ fit # <<>> /\ fit.pc = "batch"
    /\ fit.batch_index < Len(fit.batches)
    /\ \E stop \in {fit.stop_training, TRUE} :
         fit' = [fit EXCEPT
                   !.calls = @ \o
                      << Callback("on_batch_begin", fit.batch_index,
                                  fit.stop_training),
                         Callback("on_batch_end", fit.batch_index, stop) >>,
                   !.stop_training = stop,
                   !.epoch_logs = TRUE,
                   !.batch_index = @ + 1]
    /\ UNCHANGED <<cnt, flat>>
    /\ UNCHANGED <<walkVars, storeVars, ctor, graphVars, moreVars>>

\* After the loop over the batches: callbacks.on_epoch_end(epoch,
\* epoch_logs), which reads the local epoch_logs, bound only inside the loop
\* over the batches; then `if self.stop_training: break`.
EpochEnd ==
    /\ fit # <<>> /\ fit.pc = "batch"
    /\ fit.batch_index = Len(fit.batches)
    /\ IF ~fit.epoch_logs
       THEN fit' = [fit EXCEPT !.pc = "UnboundLocalError"]
       ELSE \E stop \in {fit.stop_training, TRUE} :
              fit' = [fit EXCEPT
                        !.calls = Append(@, Callback("on_epoch_end", fit.epoch,
                                                     stop)),
                        !.stop_training = stop,
                        !.epoch = @ + 1,
                        !.pc = IF stop THEN "train_end"
                               ELSE NextEpochOrEnd(fit.epoch + 1, fit.nb_epoch)]
    /\ UNCHANGED <<cnt, flat>>
    /\ UNCHANGED <<walkVars, storeVars, ctor, graphVars, moreVars>>

\* callbacks.on_train_end(); return history
TrainEnd ==
    /\ fit # <<>> /\ fit.pc = "train_end"
    /\ fit' = [fit EXCEPT
                 !.calls = Append(@, Callback("on_train_end", 0,
                                              fit.stop_training)),
                 !.pc = "returned"]
    /\ UNCHANGED <<cnt, flat>>
    /\ UNCHANGED <<walkVars, storeVars, ctor, graphVars, moreVars>>

NextFit ==
    \/ TrainBegin
    \/ EpochBegin
    \/ Batch
    \/ EpochEnd
    \/ TrainEnd

SpecFit == InitFit /\ [][NextFit]_vars

\* The names and indices of the calls of the protocol for `epochs` whole
\* epochs of `nb_batch` batches each, without on_train_end.
RECURSIVE BatchCalls(_)
BatchCalls(nb_batch) ==
    IF nb_batch = 0 THEN <<>>
    ELSE BatchCalls(nb_batch - 1)
           \o << <<"on_batch_begin", nb_batch - 1>>,
                 <<"on_batch_end", nb_batch - 1>> >>

RECURSIVE ProtocolCalls(_, _)
ProtocolCalls(epochs, nb_batch) ==
    IF epochs = 0 THEN << <<"on_train_begin", 0>> >>
    ELSE ProtocolCalls(epochs - 1, nb_batch)
           \o << <<"on_epoch_begin", epochs - 1>> >>
           \o BatchCalls(nb_batch)
           \o << <<"on_epoch_end", epochs - 1>> >>

CallsMade == [k \in DOMAIN fit.calls |-> <<fit.calls[k].name, fit.calls[k].index>>]

IsPrefix(s, t) == Len(s) <= Len(t) /\ s = SubSeq(t, 1, Len(s))

\* The calls made so far are the beginning of the protocol.
CallsFollowProtocol ==
    IsPrefix(CallsMade,
             ProtocolCalls(fit.nb_epoch, CeilDiv(fit.nb_sample, fit.batch_size))
               \o << <<"on_train_end", 0>> >>)
    \/ \E e \in 0..fit.nb_epoch :
         CallsMade = ProtocolCalls(e, CeilDiv(fit.nb_sample, fit.batch_size))
                        \o << <<"on_train_end", 0>> >>

\* No epoch is begun after an epoch that ended with stop_training true.
NoEpochAfterStop ==
    \A k \in DOMAIN fit.calls :
        (fit.calls[k].name = "on_epoch_end" /\ fit.calls[k].stop) =>
            \A j \in (k + 1)..Len(fit.calls) :
                fit.calls[j].name = "on_train_end"

\* C30: for every number of epochs and batches _fit calls on_train_begin
\* first and on_train_end last, in every epoch on_epoch_begin, then
\* on_batch_begin and on_batch_end for each batch in index order, then
\* on_epoch_end, and begins no epoch after one that ended with stop_training
\* true: the calls made are always the beginning of that protocol, and _fit
\* ends only by returning, after on_train_end closed whole epochs.
C30_FitCallbackProtocol ==
    fit # <<>> =>
        /\ CallsFollowProtocol
        /\ NoEpochAfterStop
        /\ fit.pc # "UnboundLocalError"
        /\ fit.pc = "returned" =>
             /\ fit.calls[Len(fit.calls)].name = "on_train_end"
             /\ (fit.epoch < fit.nb_epoch => fit.stop_training)

(***************************************************************************)
(*              Functional._flatten_to_reference_inputs                     *)
(***************************************************************************)

\* The most inputs a model is declared with, and the longest list of data.
MaxDeclared == 2
MaxData == 2

\* Names of input operations and keys of dicts, in the order of sorted().
InputNames == <<"a", "b", "c">>
NameRank(n) == CHOOSE i \in DOMAIN InputNames : InputNames[i] = n

\* The values passed as data.
DataValues == {"u", "v"}

\* sorted(keys)
RECURSIVE sorted(_)
sorted(keys) ==
    IF keys = {} THEN <<>>
    ELSE LET first == CHOOSE k \in keys :
                        \A other \in keys : NameRank(k) <= NameRank(other)
         IN  <<first>> \o sorted(keys \ {first})

\* The structures a model is declared with (self._inputs_struct): one
\* KerasTensor, a list of KerasTensors, or a dict of them; a KerasTensor is
\* known by the name of its input operation. A dict key need not be the name
\* of its tensor (Functional.__init__ only warns).
DeclaredInputs ==
    { [kind |-> "tensor", list |-> <<n>>, dict |-> <<>>] : n \in Range(InputNames) }
    \cup
    { [kind |-> "list", list |-> l, dict |-> <<>>] :
        l \in UNION { [1..k -> Range(InputNames)] : k \in 1..MaxDeclared } }
    \cup
    { [kind |-> "dict", list |-> <<>>, dict |-> d] :
        d \in UNION { [K -> Range(InputNames)] :
                        K \in { S \in SUBSET Range(InputNames) :
                                  Cardinality(S) \in 1..MaxDeclared } } }

\* The data passed to the model: a dict, a list, or one value.
InputData ==
    { [kind |-> "dict", list |-> <<>>, dict |-> d] :
        d \in UNION { [K -> DataValues] : K \in SUBSET Range(InputNames) } }
    \cup
    { [kind |-> "list", list |-> l, dict |-> <<>>] :
        l \in UNION { [1..k -> DataValues] : k \in 0..MaxData } }
    \cup
    { [kind |-> "value", list |-> <<v>>, dict |-> <<>>] : v \in DataValues }

\* tree.flatten of a structure declared or passed: the leaves of a dict in
\* the sorted order of its keys, those of a list in its order, a single leaf
\* alone.
tree_flatten(struct) ==
    IF struct.kind = "dict"
    THEN [i \in 1..Cardinality(DOMAIN struct.dict) |->
            struct.dict[sorted(DOMAIN struct.dict)[i]]]
    ELSE struct.list

\* ref_input_names: the sorted keys of a dict of declared inputs, otherwise
\* the names of the input operations of ref_inputs in their order.
ref_input_names_by_operation(declared) == tree_flatten(declared)
ref_input_names(declared) ==
    IF declared.kind = "dict"
    THEN sorted(DOMAIN declared.dict)
    ELSE declared.list

NoFlatten == [error |-> "none", values |-> <<>>, warned |-> FALSE]

\* _flatten_to_reference_inputs(inputs, allow_extra_keys)
flatten_to_reference_inputs(declared, inputs, allow_extra_keys) ==
    IF inputs.kind = "dict"
    THEN LET names == ref_input_names(declared)
             warned == ~allow_extra_keys
                       /\ Cardinality(DOMAIN inputs.dict) > Len(names)
         IN  IF \E i \in DOMAIN names : names[i] \notin DOMAIN inputs.dict
             THEN [error |-> "KeyError", values |-> <<>>, warned |-> warned]
             ELSE [error |-> "none", warned |-> warned,
                   values |-> [i \in DOMAIN names |-> inputs.dict[names[i]]]]
    ELSE [error |-> "none", values |-> tree_flatten(inputs), warned |-> FALSE]

InitFlatten ==
    /\ flat \in { [declared |-> d, inputs |-> x, allow_extra_keys |-> a,
                   called |-> FALSE, result |-> NoFlatten] :
                    d \in DeclaredInputs, x \in InputData, a \in BOOLEAN }
    /\ NamesIdle /\ FitIdle
    /\ WalkIdle /\ StoreIdle /\ CtorIdle /\ GraphIdle /\ MoreIdle

FlattenToReference ==
    /\ flat # <<>> /\ ~flat.called
    /\ flat' = [flat EXCEPT
                  !.called = TRUE,
                  !.result = flatten_to_reference_inputs(
                                 flat.declared, flat.inputs,
                                 flat.allow_extra_keys)]
    /\ UNCHANGED <<cnt, fit>>
    /\ UNCHANGED <<walkVars, storeVars, ctor, graphVars, moreVars>>

NextFlatten == FlattenToReference

SpecFlatten == InitFlatten /\ [][NextFlatten]_vars

\* The name by which the data of the i-th input of the model's flat input
\* list (tree.flatten of the declared structure) is looked up: its dict key
\* when the model was declared with a dict, the name of its input operation
\* otherwise.
FlatInputName(i) ==
    IF flat.declared.kind = "dict"
    THEN CHOOSE k \in DOMAIN flat.declared.dict :
            Cardinality({h \in DOMAIN flat.declared.dict :
                           NameRank(h) < NameRank(k)}) = i - 1
    ELSE flat.declared.list[i]

NbFlatInputs == Len(tree_flatten(flat.declared))

\* C27: given a dict that holds every declared name,
\* _flatten_to_reference_inputs returns one value per declared input, the
\* i-th being the value under the name of the i-th input of the model's flat
\* input order, whatever other keys the dict holds (a dict that lacks a
\* declared name raises KeyError); data that is not a dict is returned
\* flattened in its own order.
C27_FlattenSelectsByName ==
    (flat # <<>> /\ flat.called) =>
        IF flat.inputs.kind = "dict"
        THEN IF \A i \in 1..NbFlatInputs :
                    FlatInputName(i) \in DOMAIN flat.inputs.dict
             THEN /\ flat.result.error = "none"
                  /\ Len(flat.result.values) = NbFlatInputs
                  /\ \A i \in 1..NbFlatInputs :
                       flat.result.values[i] = flat.inputs.dict[FlatInputName(i)]
             ELSE flat.result.error = "KeyError"
        ELSE /\ flat.result.error = "none"
             /\ flat.result.values = flat.inputs.list

\* A model declared with the dict {"b": tensor of input a, "a": tensor of
\* input c} called on a dict with a key that matches nothing: the values
\* come back in the order of the sorted keys and the extra key is dropped.
C27_Witness ==
    /\ flat # <<>> /\ flat.called
    /\ flat.declared.kind = "dict"
    /\ DOMAIN flat.declared.dict = {"a", "b"}
    /\ flat.declared.dict["b"] = "a" /\ flat.declared.dict["a"] = "c"
    /\ flat.inputs.kind = "dict"
    /\ DOMAIN flat.inputs.dict = {"a", "b", "c"}
    /\ flat.inputs.dict["a"] = "u" /\ flat.inputs.dict["b"] = "v"
    /\ flat.inputs.dict["c"] = "v"
    /\ flat.result.values = <<"u", "v">>

====
